---- MODULE Spec2Model ----
(***************************************************************************)
(* A model of the math-bot command handlers: cogs/math.py (MathCog),       *)
(* cogs/prac.py (PracticeCog) and cogs/potd.py (PotdCog).                  *)
(*                                                                         *)
(* Every command handler is an asyncio coroutine.  The code from the       *)
(* handler's entry to its first suspending await (always a ctx.send) runs  *)
(* without yielding to the event loop: sqlite3 calls, subprocess.run and   *)
(* dict updates are synchronous.  Each handler is therefore two steps: the *)
(* synchronous segment, which reads and writes the cog's state and hands   *)
(* one message to ctx.send, and the completion of that send, after which   *)
(* the handler returns without touching the state again.  awaiting counts  *)
(* the handlers of each user suspended at their send; handlers of any      *)
(* users, the same user included, interleave there.                        *)
(*                                                                         *)
(* The cogs share no state, so a run issues the commands of one cog (cog). *)
(*                                                                         *)
(* The functions the handlers rest on (_update_leaderboard, _check_answer, *)
(* _clean_answer_latex, the leaderboard SELECT, _populate_problems, the    *)
(* argument parsing of math_problem, _ordinal) have specifications of      *)
(* their own, which draw the function's inputs in their initial states and *)
(* apply it; fn holds the call and its result.  PotdCog has its own        *)
(* specification (SpecPotd) over potd, with fn following the daily_post    *)
(* task.                                                                   *)
(***************************************************************************)
EXTENDS Integers, Sequences, FiniteSets, TLC

VARIABLES
    active,       \* MathCog.active: dict user id -> problem id
    leaderboard,  \* table leaderboard: user id -> [solved, attempted]
    problems,     \* PracticeCog.problems: dict user id -> problem record
    opened,       \* history: sessions each user has opened in MathCog.active
    awaiting,     \* per user, the handlers suspended at their ctx.send
    sent,         \* the message of the latest ctx.send call
    cog,          \* the cog whose commands the run issues
    fn,           \* the function call a function's specification follows
    potd          \* the fields of PotdCog

vars ==
    <<active, leaderboard, problems, opened, awaiting, sent, cog, fn, potd>>

-----------------------------------------------------------------------------
(* Bounds of the model *)

\* sessions one user opens in a run
MaxSessions == 2
\* handlers suspended at an await at the same time
MaxInFlight == 2
\* rows of the problems table
NumProblems == 2

Users == {"u1", "u2"}
Problems == 1..NumProblems
None == "None"

-----------------------------------------------------------------------------
(* Python dicts and the sqlite tables as functions on their key sets *)

Has(d, k) == k \in DOMAIN d
Put(d, k, v) == [x \in (DOMAIN d) \cup {k} |-> IF x = k THEN v ELSE d[x]]
Del(d, k) == [x \in (DOMAIN d) \ {k} |-> d[x]]
EmptyDict == [x \in {} |-> None]

\* fn while no function's specification is running.
NoCall == [op |-> None]

\* PotdCog.__init__, lines 33-40: no date (None), no problem and no answer
\* (None, falsy as the empty string is), nothing counted.
NoDate == 0
PotdCog ==
    [current_date |-> NoDate, current_problem |-> "", current_answer |-> "",
     attempts |-> EmptyDict, solved |-> EmptyDict, solve_order |-> <<>>]

-----------------------------------------------------------------------------
(* The problems table.  Rows are never deleted or changed after            *)
(* _populate_problems, so the table is a constant of a run.                *)

Subjects == {"Algebra", "Geometry"}
Levels == 1..NumProblems
\* fetchone() returning None (ids are AUTOINCREMENT, from 1), and the level
\* argument left at None.
NoRow == 0
NoLevel == 0 - 1
ProblemSubject(p) == IF p % 2 = 1 THEN "Algebra" ELSE "Geometry"
ProblemLevel(p) == p

\* _get_random_problem: the rows fetchone() may return.  No filter is added
\* for a falsy subject or a level of None; a sqlite3.Error is logged and
\* None returned; fetchone() is None when no row matches.
Matching(subject, level) ==
    {p \in Problems : /\ (subject = None \/ ProblemSubject(p) = subject)
                      /\ (level = NoLevel \/ ProblemLevel(p) = level)}
GetRandomProblem(subject, level, dbOk) ==
    IF ~dbOk THEN {NoRow}
    ELSE IF Matching(subject, level) = {} THEN {NoRow}
    ELSE Matching(subject, level)

\* What _get_random_problem returns over the arguments of `math problem`
\* (no subject or one, no level or one) and the outcomes of its SELECT.
FetchedRows ==
    UNION {GetRandomProblem(subject, level, dbOk) :
              subject \in Subjects \cup {None},
              level \in Levels \cup {NoLevel}, dbOk \in BOOLEAN}

-----------------------------------------------------------------------------
(* Numbers.  A decimal number is an integer n in units of 1e-8.  A Python  *)
(* float is an IEEE-754 double: float(N(ue, 15)) and a float literal are   *)
(* the double nearest to the decimal number.  With 2^k <= x < 2^(k+1) and  *)
(* x = n / 10^8, the double is M * 2^(k-52) for the integer M nearest to   *)
(*     x * 2^(52-k) = n * 2^(44-k) / 5^8,                                  *)
(* so with r = (n * 2^(44-k)) mod 5^8 the double is x + e * 2^(k-52) / 5^8 *)
(* where e = -r (rounded down, 2r < 5^8) or e = 5^8 - r (rounded up).  A   *)
(* float is the record of n, k and e, or a NaN, or an infinity.            *)

\* 1 in units of 1e-8
Unit == 100000000
\* 5^8 = 10^8 / 2^8
FiveTo8 == 390625
\* The literal 1e-6 of `diff < 1e-6`, in units of 1e-8.
Tolerance == 100

\* A value before its conversion to a float: a decimal number, or the
\* sympy numbers nan and oo.
Num(n) == [kind |-> "finite", n |-> n]
NaNValue == [kind |-> "nan", n |-> 0]
InfValue == [kind |-> "inf", n |-> 0]

RECURSIVE Pow2(_)
Pow2(d) == IF d = 0 THEN 1 ELSE 2 * Pow2(d - 1)
RECURSIVE Log2(_)
Log2(m) == IF m < 2 THEN 0 ELSE 1 + Log2(m \div 2)
\* the least j with n * 2^j >= Unit, for 0 < n < Unit
RECURSIVE Doublings(_)
Doublings(n) == IF n >= Unit THEN 0 ELSE 1 + Doublings(2 * n)
\* k with 2^k <= n / 10^8 < 2^(k+1), for n > 0
Binade(n) == IF n >= Unit THEN Log2(n \div Unit) ELSE 0 - Doublings(n)

\* 2^j mod 5^8 and a * b mod 5^8, within 32-bit integers
RECURSIVE Pow2Mod(_)
Pow2Mod(j) == IF j = 0 THEN 1 ELSE (2 * Pow2Mod(j - 1)) % FiveTo8
RECURSIVE MulMod(_, _)
MulMod(a, b) ==
    IF b = 0 THEN 0
    ELSE (2 * MulMod(a, b \div 2) + (IF b % 2 = 1 THEN a ELSE 0)) % FiveTo8

\* The double nearest to n * 1e-8 (round to nearest; 5^8 is odd, no ties).
FloatOf(n) ==
    IF n = 0 THEN [kind |-> "finite", n |-> 0, k |-> 0, e |-> 0]
    ELSE LET m == IF n < 0 THEN 0 - n ELSE n
             k == Binade(m)
             r == MulMod(m % FiveTo8, Pow2Mod(44 - k))
             e == IF 2 * r < FiveTo8 THEN 0 - r ELSE FiveTo8 - r
         IN [kind |-> "finite", n |-> n, k |-> k,
             e |-> IF n < 0 THEN 0 - e ELSE e]

NaN == [kind |-> "nan", n |-> 0, k |-> 0, e |-> 0]
Inf == [kind |-> "inf", n |-> 0, k |-> 0, e |-> 0]

\* float(...) of a value
ToFloat(v) ==
    CASE v.kind = "nan" -> NaN
      [] v.kind = "inf" -> Inf
      [] OTHER -> FloatOf(v.n)

\* a - b for a canonical answer b.  The canonical answers of the model are
\* integers, which are doubles (b.e = 0).  The difference of the doubles is
\* a double where the comparison with 1e-6 depends on it: for a within a
\* factor 2 of b, and for b = 0, the subtraction is exact; elsewhere its
\* rounding error is far below the unit 1e-8.
FloatSub(a, b) ==
    IF a.kind = "nan" \/ b.kind = "nan" THEN NaN
    ELSE IF a.kind = "inf" /\ b.kind = "inf" THEN NaN
    ELSE IF a.kind = "inf" \/ b.kind = "inf" THEN Inf
    ELSE IF a.n = b.n /\ a.e = b.e THEN FloatOf(0)
    ELSE IF b.e = 0
    THEN [kind |-> "finite", n |-> a.n - b.n, k |-> a.k, e |-> a.e]
    ELSE CASE a.e = 0 ->
            [kind |-> "finite", n |-> a.n - b.n, k |-> b.k, e |-> 0 - b.e]

\* abs(a)
FloatAbs(a) ==
    IF a.kind = "finite" /\ (a.n < 0 \/ (a.n = 0 /\ a.e < 0))
    THEN [a EXCEPT !.n = 0 - a.n, !.e = 0 - a.e]
    ELSE a

\* a.e * 2^a.k < b.e * 2^b.k, for residuals below 2^19 in size
ResidualLess(a, b) ==
    IF a.k = b.k THEN a.e < b.e
    ELSE IF a.k > b.k
    THEN IF a.k - b.k > 18 THEN a.e < 0 \/ (a.e = 0 /\ b.e > 0)
         ELSE a.e < 0 - ((0 - b.e) \div Pow2(a.k - b.k))
    ELSE IF b.k - a.k > 18 THEN b.e > 0 \/ (b.e = 0 /\ a.e < 0)
         ELSE (a.e \div Pow2(b.k - a.k)) < b.e

\* a < b for a >= 0 and b >= 0; a comparison with a NaN is False.
FloatLess(a, b) ==
    IF a.kind = "nan" \/ b.kind = "nan" THEN FALSE
    ELSE IF a.kind = "inf" THEN FALSE
    ELSE IF b.kind = "inf" THEN TRUE
    ELSE a.n < b.n \/ (a.n = b.n /\ ResidualLess(a, b))

\* row["answer_tex"] of problem p, evaluated: the integer p.
AnswerValue(p) == p * Unit

-----------------------------------------------------------------------------
(* _check_answer, lines 262-277.  ans describes what parse_latex and the   *)
(* restricted eval make of the cleaned text:                               *)
(*   parse = "closed":  parse_latex returns an expression without free     *)
(*                      symbols whose value float() accepts (pval)         *)
(*   parse = "free":    parse_latex returns an expression with free symbols*)
(*   parse = "complex": parse_latex returns a closed expression on which   *)
(*                      float(N(ue, 15)) raises TypeError                  *)
(*   parse = "raise":   parse_latex raises                                 *)
(* and, for the fallback, ev = "num" (eval returns the int/float eval),    *)
(* "other" (eval returns another type) or "raise" (eval raises), and       *)
(* effect: evaluating the text runs a command on the host.                 *)

Correct == <<TRUE, None>>
Invalid == <<FALSE, "invalid">>
Wrong == <<FALSE, "wrong">>

Abs(x) == IF x < 0 THEN -x ELSE x

\* Variant: the tolerance included, `diff <= 1e-6`.
CompareInclusive(diff) ==
    IF ~FloatLess(FloatOf(Tolerance), diff) /\ diff.kind # "nan"
    THEN Correct ELSE Wrong

Compare(diff) == IF FloatLess(diff, FloatOf(Tolerance)) THEN Correct ELSE Wrong

\* abs(<float> - float(N(correct_expr, 15)))
Difference(value, correct) ==
    FloatAbs(FloatSub(ToFloat(value), FloatOf(correct)))

EvalFallback(ans, correct) ==
    CASE ans.ev = "raise" -> Invalid
      [] ans.ev = "other" -> Invalid
      [] OTHER -> Compare(Difference(ans.eval, correct))

\* Variant: free symbols raising, so that the fallback gets the text.
CheckAnswerFallsThrough(ans, correct) ==
    CASE ans.parse = "closed" -> Compare(Difference(ans.pval, correct))
      [] OTHER -> EvalFallback(ans, correct)

CheckAnswer(ans, correct) ==
    CASE ans.parse = "free" -> Invalid
      [] ans.parse = "closed" -> Compare(Difference(ans.pval, correct))
      [] OTHER -> EvalFallback(ans, correct)

\* The text reaches eval(ans, {"__builtins__": None}, {}).
EvalReached(ans) == ans.parse \in {"complex", "raise"}

\* The submissions math_submit is driven with, around the canonical value:
\* equal, inside the tolerance, on it, and beyond it on the other side.
Offsets == {0, 99, 100, 0 - 100}
Submissions(correct) ==
    LET values == {Num(correct + d) : d \in Offsets} IN
    [parse : {"closed"}, pval : values, ev : {"raise"}, eval : {Num(0)},
     effect : {FALSE}]
    \cup [parse : {"free"}, pval : {Num(0)}, ev : {"raise"}, eval : {Num(0)},
          effect : {FALSE}]
    \cup [parse : {"raise"}, pval : {Num(0)}, ev : {"num"}, eval : values,
          effect : {FALSE}]
    \cup [parse : {"complex"}, pval : {Num(0)}, ev : {"num"},
          eval : {Num(correct)}, effect : {FALSE}]
    \cup [parse : {"complex", "raise"}, pval : {Num(0)},
          ev : {"other", "raise"}, eval : {Num(0)}, effect : {FALSE}]

\* What _check_answer returns over those submissions.
Verdicts(correct) ==
    {CheckAnswer(ans, correct) : ans \in Submissions(correct)}

\* The same, for the answer of each row of the problems table.
VerdictsOf == [p \in Problems |-> Verdicts(AnswerValue(p))]

-----------------------------------------------------------------------------
(* Texts.  A text is a sequence of tokens: the characters the cleaning     *)
(* looks at ("$", "{", "}", whitespace), the marker \boxed, and pieces of  *)
(* text holding none of those at their ends.                               *)

Boxed == "\\boxed"
Whitespace == {" "}

\* The first index at or after i whose token is no whitespace.
RECURSIVE SkipWhitespace(_, _)
SkipWhitespace(s, i) ==
    IF i <= Len(s) /\ s[i] \in Whitespace THEN SkipWhitespace(s, i + 1) ELSE i

\* The index of the first "}" at or after i, 0 when there is none.
RECURSIVE FirstClose(_, _)
FirstClose(s, i) ==
    IF i > Len(s) THEN 0
    ELSE IF s[i] = "}" THEN i ELSE FirstClose(s, i + 1)

\* The index of the last "}" at or after i, 0 when there is none.
RECURSIVE LastClose(_, _)
LastClose(s, i) ==
    IF i > Len(s) THEN 0
    ELSE IF LastClose(s, i + 1) > 0 THEN LastClose(s, i + 1)
    ELSE IF s[i] = "}" THEN i ELSE 0

\* Variant: a greedy payload, \\boxed\s*\{(.*)\}, ending at the last brace.
RECURSIVE SubBoxedGreedy(_)
SubBoxedGreedy(s) ==
    IF s = <<>> THEN <<>>
    ELSE LET open == SkipWhitespace(s, 2)
             close == IF Head(s) = Boxed /\ open <= Len(s) /\ s[open] = "{"
                      THEN LastClose(s, open + 1) ELSE 0
         IN IF close > 0
            THEN SubSeq(s, open + 1, close - 1)
                 \o SubBoxedGreedy(SubSeq(s, close + 1, Len(s)))
            ELSE <<Head(s)>> \o SubBoxedGreedy(Tail(s))

\* re.sub(r"\\boxed\s*\{([^}]*)\}", r"\1", ans): scanning from the left,
\* a marker, whitespace, "{", tokens other than "}", and the first "}" are
\* replaced by the tokens between the braces; the scan goes on after the
\* match.
RECURSIVE SubBoxed(_)
SubBoxed(s) ==
    IF s = <<>> THEN <<>>
    ELSE LET open == SkipWhitespace(s, 2)
             close == IF Head(s) = Boxed /\ open <= Len(s) /\ s[open] = "{"
                      THEN FirstClose(s, open + 1) ELSE 0
         IN IF close > 0
            THEN SubSeq(s, open + 1, close - 1)
                 \o SubBoxed(SubSeq(s, close + 1, Len(s)))
            ELSE <<Head(s)>> \o SubBoxed(Tail(s))

\* Variant: every "$$" removed.
RECURSIVE ReplaceDollarsDropped(_)
ReplaceDollarsDropped(s) ==
    IF s = <<>> THEN <<>>
    ELSE IF Len(s) >= 2 /\ s[1] = "$" /\ s[2] = "$"
    THEN ReplaceDollarsDropped(SubSeq(s, 3, Len(s)))
    ELSE <<Head(s)>> \o ReplaceDollarsDropped(Tail(s))

\* .replace("$$", "$"): the occurrences from the left, not overlapping.
RECURSIVE ReplaceDollars(_)
ReplaceDollars(s) ==
    IF s = <<>> THEN <<>>
    ELSE IF Len(s) >= 2 /\ s[1] = "$" /\ s[2] = "$"
    THEN <<"$">> \o ReplaceDollars(SubSeq(s, 3, Len(s)))
    ELSE <<Head(s)>> \o ReplaceDollars(Tail(s))

\* _clean_answer_latex
CleanAnswerLatex(ans) == ReplaceDollars(SubBoxed(ans))

\* .strip()
RECURSIVE StripLeft(_)
StripLeft(s) ==
    IF s # <<>> /\ Head(s) \in Whitespace THEN StripLeft(Tail(s)) ELSE s
RECURSIVE StripRight(_)
StripRight(s) ==
    IF s # <<>> /\ s[Len(s)] \in Whitespace
    THEN StripRight(SubSeq(s, 1, Len(s) - 1)) ELSE s
Strip(s) == StripRight(StripLeft(s))

\* .replace("$", "")
RemoveDollars(s) == SelectSeq(s, LAMBDA t : t # "$")

\* line 261: self._clean_answer_latex(user_ans).strip().replace("$", "")
CleanedText(user_ans) == RemoveDollars(Strip(CleanAnswerLatex(user_ans)))

-----------------------------------------------------------------------------
(* What sympy's parse_latex (with N and float) and Python's eval with      *)
(* {"__builtins__": None} make of the cleaned texts of the model.          *)

LexEntry(text, parse, pval, ev, eval) ==
    [text |-> text, parse |-> parse, pval |-> pval, ev |-> ev,
     eval |-> eval, effect |-> FALSE]

\* Integers and decimal literals: the same number to both.
Literal(token, n) == LexEntry(<<token>>, "closed", Num(n), "num", Num(n))

Literals ==
    { Literal("1", Unit), Literal("2", 2 * Unit), Literal("5", 5 * Unit),
      Literal("6", 6 * Unit), Literal("0.5", Unit \div 2),
      Literal("1.000001", Unit + 100), Literal("0.999999", Unit - 100),
      Literal("1.00000099", Unit + 99), Literal("0.99999901", Unit - 99),
      Literal("2.000001", 2 * Unit + 100),
      Literal("1.999999", 2 * Unit - 100),
      Literal("2.00000099", 2 * Unit + 99),
      Literal("1.99999901", 2 * Unit - 99),
      Literal("5.000001", 5 * Unit + 100),
      Literal("4.999999", 5 * Unit - 100),
      Literal("5.00000099", 5 * Unit + 99),
      Literal("4.99999901", 5 * Unit - 99) }

\* A sum, to both; a fraction, an infinity, oo - oo = nan and a complex
\* number in LaTeX, on which eval raises SyntaxError; the fraction with its
\* first brace group left open, which neither accepts.
Expressions ==
    { LexEntry(<<"2+3">>, "closed", Num(5 * Unit), "num", Num(5 * Unit)),
      LexEntry(<<"\\frac", "{", "1", "}", "{", "2", "}">>,
             "closed", Num(Unit \div 2), "raise", Num(0)),
      LexEntry(<<"\\frac", "{", "1", "{", "2", "}", "}">>,
             "raise", Num(0), "raise", Num(0)),
      LexEntry(<<"\\infty">>, "closed", InfValue, "raise", Num(0)),
      LexEntry(<<"\\infty", "-", "\\infty">>, "closed", NaNValue,
             "raise", Num(0)),
      LexEntry(<<"\\sqrt", "{", "-1", "}">>, "complex", Num(0),
             "raise", Num(0)) }

\* Letters are symbols to parse_latex; eval raises NameError on a name and
\* reads 50e-1 as the float 5.0.
Symbolic ==
    { LexEntry(<<"five">>, "free", Num(0), "raise", Num(0)),
      LexEntry(<<"x">>, "free", Num(0), "raise", Num(0)),
      LexEntry(<<"50e-1">>, "free", Num(0), "num", Num(5 * Unit)) }

\* Python that is no LaTeX (parse_latex raises).  Arithmetic: a power and
\* a power with a complex value.  Names, attributes and calls: the payload
\* of test_check_answer_malicious_input (NameError), an attribute of a
\* literal, a method call on a literal, the class of a literal, and a walk
\* from a literal through __subclasses__() (at some index k) and
\* __globals__ to os.system, which runs the command and returns 0.
PythonArithmetic ==
    { LexEntry(<<"5**1">>, "raise", Num(0), "num", Num(5 * Unit)),
      LexEntry(<<"(-8)**0.5">>, "raise", Num(0), "other", Num(0)) }
CodeLike ==
    { LexEntry(<<"__import__('os').system('echo hi')">>,
             "raise", Num(0), "raise", Num(0)),
      LexEntry(<<"(5).real">>, "raise", Num(0), "num", Num(5 * Unit)),
      LexEntry(<<"(5).bit_length()">>, "raise", Num(0), "num", Num(3 * Unit)),
      LexEntry(<<"().__class__">>, "raise", Num(0), "other", Num(0)),
      [ LexEntry(<<"().__class__.__base__.__subclasses__()[k].__init__.__globals__['system']('echo hi')">>,
                 "raise", Num(0), "num", Num(0))
        EXCEPT !.effect = TRUE ] }

Lexicon ==
    Literals \cup Expressions \cup Symbolic \cup PythonArithmetic \cup CodeLike

\* A text outside the lexicon: taken as one neither parser accepts.
Unparsed(text) == LexEntry(text, "raise", Num(0), "raise", Num(0))

Describe(text) ==
    IF \E entry \in Lexicon : entry.text = text
    THEN CHOOSE entry \in Lexicon : entry.text = text
    ELSE Unparsed(text)

\* _check_answer(user_ans, correct_expr), lines 260-277.
CheckUserAnswer(user_ans, correct) ==
    CheckAnswer(Describe(CleanedText(user_ans)), correct)

\* The host after the call: a command has run on it when the text reached
\* eval and evaluating it runs one.
HostAfter(user_ans, host) ==
    LET ans == Describe(CleanedText(user_ans))
    IN IF EvalReached(ans) /\ ans.effect THEN "command run" ELSE host

-----------------------------------------------------------------------------
(* _update_leaderboard: the upsert, committed, or a sqlite3.Error that is  *)
(* logged and swallowed, leaving the table as it was.                      *)

\* Variant: the two increments bound to the wrong columns.
UpsertSwapped(led, uid, solved_inc, attempted_inc) ==
    IF Has(led, uid)
    THEN Put(led, uid, [solved |-> led[uid].solved + attempted_inc,
                        attempted |-> led[uid].attempted + solved_inc])
    ELSE Put(led, uid, [solved |-> attempted_inc, attempted |-> solved_inc])

\* Variant: an UPDATE without the conflict target, adding to every row.
UpsertAllRows(led, uid, solved_inc, attempted_inc) ==
    IF Has(led, uid)
    THEN [x \in DOMAIN led |->
             [solved |-> led[x].solved + solved_inc,
              attempted |-> led[x].attempted + attempted_inc]]
    ELSE Put(led, uid, [solved |-> solved_inc, attempted |-> attempted_inc])

Upsert(led, uid, solved_inc, attempted_inc) ==
    IF Has(led, uid)
    THEN Put(led, uid, [solved |-> led[uid].solved + solved_inc,
                        attempted |-> led[uid].attempted + attempted_inc])
    ELSE Put(led, uid, [solved |-> solved_inc, attempted |-> attempted_inc])

UpdateLeaderboard(led, uid, solved_inc, attempted_inc, writeOk) ==
    IF writeOk THEN Upsert(led, uid, solved_inc, attempted_inc) ELSE led

-----------------------------------------------------------------------------
(* A handler reaching its ctx.send: the message it hands over, whether its *)
(* _update_leaderboard call committed (wrote), and whether the text went   *)
(* out raw because rendering failed.                                       *)

\* The verdict of a message of a handler that judged no answer.
NoVerdict == <<>>

Message(u, cmd, msg, wrote, raw) ==
    [user |-> u, cmd |-> cmd, msg |-> msg, wrote |-> wrote, raw |-> raw,
     verdict |-> NoVerdict]

\* The message of math_submit, with what _check_answer returned.
Judged(m, verdict) == [m EXCEPT !.verdict = verdict]

NoMessage == Message(None, None, None, FALSE, FALSE)

InFlight == LET Sum[S \in SUBSET Users] ==
                    IF S = {} THEN 0
                    ELSE LET x == CHOOSE x \in S : TRUE
                         IN awaiting[x] + Sum[S \ {x}]
            IN Sum[Users]

\* ctx.send(...) is called and the handler suspends until it completes.
Send(m) ==
    /\ InFlight < MaxInFlight
    /\ sent' = m
    /\ awaiting' = [awaiting EXCEPT ![m.user] = @ + 1]

\* _send_image_embed: the image embed, or, when _render_text_image raises
\* RuntimeError, the raw LaTeX as text; either way by one ctx.send.
SendImageEmbed(u, cmd, msg, wrote, renderOk) ==
    Send(Message(u, cmd, msg, wrote, ~renderOk))

-----------------------------------------------------------------------------
(* MathCog *)

\* Variant: math_problem without the `uid in self.active` check.
MathProblemNoCheck(u) ==
    \E row \in FetchedRows :
       IF row = NoRow
       THEN /\ Send(Message(u, "problem", "no_problems", FALSE, FALSE))
            /\ UNCHANGED <<active, leaderboard, problems, opened>>
       ELSE /\ opened[u] < MaxSessions
            /\ active' = Put(active, u, row)
            /\ opened' = [opened EXCEPT ![u] = @ + 1]
            /\ \E renderOk \in BOOLEAN :
                  SendImageEmbed(u, "problem", "problem", FALSE, renderOk)
            /\ UNCHANGED <<leaderboard, problems>>

\* math_problem, lines 327-356.
MathProblem(u) ==
    IF Has(active, u)
    THEN /\ Send(Message(u, "problem", "already_active", FALSE, FALSE))
         /\ UNCHANGED <<active, leaderboard, problems, opened>>
    ELSE \E row \in FetchedRows :
           IF row = NoRow
           THEN /\ Send(Message(u, "problem", "no_problems", FALSE, FALSE))
                /\ UNCHANGED <<active, leaderboard, problems, opened>>
           ELSE /\ opened[u] < MaxSessions
                /\ active' = Put(active, u, row)
                /\ opened' = [opened EXCEPT ![u] = @ + 1]
                /\ \E renderOk \in BOOLEAN :
                      SendImageEmbed(u, "problem", "problem", FALSE, renderOk)
                /\ UNCHANGED <<leaderboard, problems>>

\* Variant: the solution sent for an answer that is wrong.
SubmitReplyReveals(verdict) ==
    IF verdict[2] = "invalid" THEN "invalid" ELSE "solved"

\* math_submit, lines 377-383: the message for an answer that is not
\* correct.
SubmitReply(verdict) ==
    IF verdict[2] = "invalid" THEN "invalid" ELSE "incorrect"

\* Variant: math_submit recording an attempt for every checked answer.
MathSubmitCountsWrong(u) ==
    IF ~Has(active, u)
    THEN /\ Send(Message(u, "submit", "no_active", FALSE, FALSE))
         /\ UNCHANGED <<active, leaderboard, problems, opened>>
    ELSE \E verdict \in VerdictsOf[active[u]] :
         IF ~verdict[1]
         THEN /\ leaderboard' = UpdateLeaderboard(leaderboard, u, 0, 1, TRUE)
              /\ Send(Judged(Message(u, "submit", SubmitReply(verdict),
                                     FALSE, FALSE), verdict))
              /\ UNCHANGED <<active, problems, opened>>
         ELSE /\ leaderboard' = UpdateLeaderboard(leaderboard, u, 1, 1, TRUE)
              /\ active' = Del(active, u)
              /\ Send(Judged(Message(u, "submit", "solved", TRUE, FALSE),
                             verdict))
              /\ UNCHANGED <<problems, opened>>

\* Variant: math_submit rendering the solution before it records the
\* attempt and closes the session, and doing neither when rendering fails.
MathSubmitRendersFirst(u) ==
    IF ~Has(active, u)
    THEN /\ Send(Message(u, "submit", "no_active", FALSE, FALSE))
         /\ UNCHANGED <<active, leaderboard, problems, opened>>
    ELSE \E verdict \in VerdictsOf[active[u]] :
         IF ~verdict[1]
         THEN /\ Send(Judged(Message(u, "submit", SubmitReply(verdict),
                                     FALSE, FALSE), verdict))
              /\ UNCHANGED <<active, leaderboard, problems, opened>>
         ELSE \E renderOk \in BOOLEAN :
              /\ leaderboard' =
                     UpdateLeaderboard(leaderboard, u, 1, 1, renderOk)
              /\ active' = IF renderOk THEN Del(active, u) ELSE active
              /\ Send(Judged(Message(u, "submit", "solved", renderOk,
                                     ~renderOk), verdict))
              /\ UNCHANGED <<problems, opened>>

\* math_submit, lines 364-390.  A sqlite3.Error of the SELECT is caught by
\* the handler's `except Exception`.  The Correct branch ends in
\* _send_image_embed (SendImageEmbed, with the verdict on the message).
MathSubmit(u) ==
    IF ~Has(active, u)
    THEN /\ Send(Message(u, "submit", "no_active", FALSE, FALSE))
         /\ UNCHANGED <<active, leaderboard, problems, opened>>
    ELSE \E readOk \in BOOLEAN :
         IF ~readOk
         THEN /\ Send(Message(u, "submit", "error", FALSE, FALSE))
              /\ UNCHANGED <<active, leaderboard, problems, opened>>
         ELSE \E verdict \in VerdictsOf[active[u]] :
              IF ~verdict[1]
              THEN /\ Send(Judged(Message(u, "submit", SubmitReply(verdict),
                                          FALSE, FALSE), verdict))
                   /\ UNCHANGED <<active, leaderboard, problems, opened>>
              ELSE \E writeOk \in BOOLEAN, renderOk \in BOOLEAN :
                   /\ leaderboard' =
                          UpdateLeaderboard(leaderboard, u, 1, 1, writeOk)
                   /\ active' = Del(active, u)
                   /\ Send(Judged(Message(u, "submit", "solved", writeOk,
                                          ~renderOk), verdict))
                   /\ UNCHANGED <<problems, opened>>

\* Variant: math_giveup without the `uid not in self.active` check, popping
\* with a default.
MathGiveupNoCheck(u) ==
    /\ active' = Del(active, u)
    /\ \E writeOk \in BOOLEAN, renderOk \in BOOLEAN :
          /\ leaderboard' = UpdateLeaderboard(leaderboard, u, 0, 1, writeOk)
          /\ SendImageEmbed(u, "giveup", "solution", writeOk, renderOk)
    /\ UNCHANGED <<problems, opened>>

\* Variant: math_giveup deleting the session after the SELECT and the
\* ledger write, as math_submit does.
MathGiveupPopsLate(u) ==
    IF ~Has(active, u)
    THEN /\ Send(Message(u, "giveup", "no_active", FALSE, FALSE))
         /\ UNCHANGED <<active, leaderboard, problems, opened>>
    ELSE /\ \E readOk \in BOOLEAN :
            IF ~readOk
            THEN /\ Send(Message(u, "giveup", "error", FALSE, FALSE))
                 /\ UNCHANGED <<active, leaderboard>>
            ELSE \E writeOk \in BOOLEAN, renderOk \in BOOLEAN :
                 /\ active' = Del(active, u)
                 /\ leaderboard' =
                        UpdateLeaderboard(leaderboard, u, 0, 1, writeOk)
                 /\ SendImageEmbed(u, "giveup", "solution", writeOk, renderOk)
         /\ UNCHANGED <<problems, opened>>

\* math_giveup, lines 398-411.  The session is popped before the SELECT, so
\* a sqlite3.Error of the SELECT leaves it closed and nothing recorded.
MathGiveup(u) ==
    IF ~Has(active, u)
    THEN /\ Send(Message(u, "giveup", "no_active", FALSE, FALSE))
         /\ UNCHANGED <<active, leaderboard, problems, opened>>
    ELSE /\ active' = Del(active, u)
         /\ \E readOk \in BOOLEAN :
            IF ~readOk
            THEN /\ Send(Message(u, "giveup", "error", FALSE, FALSE))
                 /\ UNCHANGED leaderboard
            ELSE \E writeOk \in BOOLEAN, renderOk \in BOOLEAN :
                 /\ leaderboard' =
                        UpdateLeaderboard(leaderboard, u, 0, 1, writeOk)
                 /\ SendImageEmbed(u, "giveup", "solution", writeOk, renderOk)
         /\ UNCHANGED <<problems, opened>>

\* Variant: math_current taking the problem id with pop().
MathCurrentPops(u) ==
    IF ~Has(active, u)
    THEN /\ Send(Message(u, "current", "no_active", FALSE, FALSE))
         /\ UNCHANGED <<active, leaderboard, problems, opened>>
    ELSE /\ active' = Del(active, u)
         /\ \E renderOk \in BOOLEAN :
               SendImageEmbed(u, "current", "current", FALSE, renderOk)
         /\ UNCHANGED <<leaderboard, problems, opened>>

\* math_current, lines 419-434.
MathCurrent(u) ==
    /\ IF ~Has(active, u)
       THEN Send(Message(u, "current", "no_active", FALSE, FALSE))
       ELSE \E readOk \in BOOLEAN :
            IF ~readOk
            THEN Send(Message(u, "current", "error", FALSE, FALSE))
            ELSE \E renderOk \in BOOLEAN :
                 SendImageEmbed(u, "current", "current", FALSE, renderOk)
    /\ UNCHANGED <<active, leaderboard, problems, opened>>

\* math_leaderboard, lines 444-477: the rows are read by one SELECT, then
\* named and sent.
MathLeaderboard(u) ==
    /\ \E readOk \in BOOLEAN :
          Send(Message(u, "leaderboard", IF readOk THEN "board" ELSE "error",
                       FALSE, FALSE))
    /\ UNCHANGED <<active, leaderboard, problems, opened>>

\* The awaited ctx.send of a handler of u completes and the handler returns.
Return(u) ==
    /\ awaiting[u] > 0
    /\ awaiting' = [awaiting EXCEPT ![u] = @ - 1]
    /\ UNCHANGED <<active, leaderboard, problems, opened, sent, cog, fn, potd>>

-----------------------------------------------------------------------------
(* PracticeCog *)

\* _has_active
HasActive(user_id) == Has(problems, user_id)

\* random.randint(10, 120) of prac_square, and the (a, m) prac_modinv's loop
\* can leave with: m in 3..50, a in 2..m-1, gcd(a, m) = 1.
SquareLow == 10
SquareHigh == 120
ModLow == 3
ModHigh == 50
RECURSIVE Gcd(_, _)
Gcd(a, b) == IF b = 0 THEN a ELSE Gcd(b, a % b)
\* pow(a, -1, m): the extended Euclidean algorithm on (a, n) carrying the
\* coefficients (b, c), as CPython's long_invmod runs it; it ends with the
\* gcd and the coefficient b of a, and pow raises ValueError when the gcd
\* is not 1.  pow then reduces b into 0..m-1.
RECURSIVE InvMod(_, _, _, _)
InvMod(a, n, b, c) ==
    IF n = 0 THEN [gcd |-> a, coeff |-> b]
    ELSE InvMod(n, a % n, c, b - (a \div n) * c)
Invertible(a, m) == InvMod(a, m, 1, 0).gcd = 1
\* Variant: the coefficient as the algorithm leaves it, not reduced.
ModInverseUnreduced(a, m) == InvMod(a, m, 1, 0).coeff
ModInverse(a, m) == InvMod(a, m, 1, 0).coeff % m

\* The draws the model takes from those ranges.
SquareDraws == {SquareLow, SquareHigh}
ModDraws == {ModLow, ModLow + 1}

SquareProblem(n) == [type |-> "square", n |-> n, answer |-> n * n]
ModinvProblem(a, m) ==
    [type |-> "modinv", a |-> a, m |-> m, answer |-> ModInverse(a, m)]

\* prac_square, lines 42-58.
PracSquare(u) ==
    /\ IF HasActive(u)
       THEN /\ Send(Message(u, "prac square", "already_active", FALSE, FALSE))
            /\ UNCHANGED problems
       ELSE \E n \in SquareDraws :
            /\ problems' = Put(problems, u, SquareProblem(n))
            /\ Send(Message(u, "prac square", "problem", FALSE, FALSE))
    /\ UNCHANGED <<active, leaderboard, opened>>

\* prac_modinv, lines 62-85.
PracModinv(u) ==
    /\ IF HasActive(u)
       THEN /\ Send(Message(u, "prac modinv", "already_active", FALSE, FALSE))
            /\ UNCHANGED problems
       ELSE \E m \in ModDraws : \E a \in 2..(m - 1) :
            /\ Gcd(a, m) = 1
            /\ problems' = Put(problems, u, ModinvProblem(a, m))
            /\ Send(Message(u, "prac modinv", "problem", FALSE, FALSE))
    /\ UNCHANGED <<active, leaderboard, opened>>

\* The answers prac_submit is driven with: text int() rejects, or an integer.
NotAnInteger == [isInt |-> FALSE, val |-> 0]
PracAnswers(problem) ==
    {NotAnInteger} \cup
    [isInt : {TRUE}, val : {problem.answer, problem.answer + 1, 0}]

\* Variant: prac_submit clearing the problem after any integer answer.
PracSubmitClearsOnWrong(u) ==
    /\ IF ~HasActive(u)
       THEN /\ Send(Message(u, "prac submit", "no_active", FALSE, FALSE))
            /\ UNCHANGED problems
       ELSE \E user_answer \in PracAnswers(problems[u]) :
            IF ~user_answer.isInt
            THEN /\ Send(Message(u, "prac submit", "invalid", FALSE, FALSE))
                 /\ UNCHANGED problems
            ELSE /\ problems' = Del(problems, u)
                 /\ Send(Message(u, "prac submit",
                                 IF user_answer.val = problems[u].answer
                                 THEN "solved" ELSE "incorrect", FALSE, FALSE))
    /\ UNCHANGED <<active, leaderboard, opened>>

\* prac_submit, lines 93-124.
PracSubmit(u) ==
    /\ IF ~HasActive(u)
       THEN /\ Send(Message(u, "prac submit", "no_active", FALSE, FALSE))
            /\ UNCHANGED problems
       ELSE \E user_answer \in PracAnswers(problems[u]) :
            IF ~user_answer.isInt
            THEN /\ Send(Message(u, "prac submit", "invalid", FALSE, FALSE))
                 /\ UNCHANGED problems
            ELSE IF user_answer.val = problems[u].answer
            THEN /\ problems' = Del(problems, u)
                 /\ Send(Message(u, "prac submit", "solved", FALSE, FALSE))
            ELSE /\ Send(Message(u, "prac submit", "incorrect", FALSE, FALSE))
                 /\ UNCHANGED problems
    /\ UNCHANGED <<active, leaderboard, opened>>

\* prac_giveup, lines 130-157.
PracGiveup(u) ==
    /\ IF ~HasActive(u)
       THEN /\ Send(Message(u, "prac giveup", "no_active", FALSE, FALSE))
            /\ UNCHANGED problems
       ELSE /\ problems' = Del(problems, u)
            /\ Send(Message(u, "prac giveup", "solution", FALSE, FALSE))
    /\ UNCHANGED <<active, leaderboard, opened>>

\* prac_current, lines 163-185.
PracCurrent(u) ==
    /\ IF ~HasActive(u)
       THEN Send(Message(u, "prac current", "no_active", FALSE, FALSE))
       ELSE Send(Message(u, "prac current", "current", FALSE, FALSE))
    /\ UNCHANGED <<active, leaderboard, problems, opened>>

-----------------------------------------------------------------------------

Init ==
    /\ active = EmptyDict
    /\ leaderboard = EmptyDict
    /\ problems = EmptyDict
    /\ opened = [u \in Users |-> 0]
    /\ awaiting = [u \in Users |-> 0]
    /\ sent = NoMessage
    /\ cog \in {"math", "prac"}
    /\ fn = NoCall
    /\ potd = PotdCog

Next ==
    \/ \E u \in Users : cog = "math" /\ MathProblem(u) /\ UNCHANGED <<cog, fn, potd>>
    \/ \E u \in Users : cog = "math" /\ MathSubmit(u) /\ UNCHANGED <<cog, fn, potd>>
    \/ \E u \in Users : cog = "math" /\ MathGiveup(u) /\ UNCHANGED <<cog, fn, potd>>
    \/ \E u \in Users : cog = "math" /\ MathCurrent(u) /\ UNCHANGED <<cog, fn, potd>>
    \/ \E u \in Users : cog = "math" /\ MathLeaderboard(u) /\ UNCHANGED <<cog, fn, potd>>
    \/ \E u \in Users : cog = "prac" /\ PracSquare(u) /\ UNCHANGED <<cog, fn, potd>>
    \/ \E u \in Users : cog = "prac" /\ PracModinv(u) /\ UNCHANGED <<cog, fn, potd>>
    \/ \E u \in Users : cog = "prac" /\ PracSubmit(u) /\ UNCHANGED <<cog, fn, potd>>
    \/ \E u \in Users : cog = "prac" /\ PracGiveup(u) /\ UNCHANGED <<cog, fn, potd>>
    \/ \E u \in Users : cog = "prac" /\ PracCurrent(u) /\ UNCHANGED <<cog, fn, potd>>
    \/ \E u \in Users : Return(u)

Spec == Init /\ [][Next]_vars

-----------------------------------------------------------------------------
(* Vocabulary of the properties *)

\* In this step a handler of u ran up to its ctx.send; sent' is its message.
Called(u) == awaiting'[u] = awaiting[u] + 1

\* A dict's entry for a key, as a value that can be compared across a step.
Entry(d, k) == IF Has(d, k) THEN <<d[k]>> ELSE <<>>

Solved(led, u) == IF Has(led, u) THEN led[u].solved ELSE 0
Attempted(led, u) == IF Has(led, u) THEN led[u].attempted ELSE 0

\* The step closes u's session in MathCog.active.
Closes(u) == Has(active, u) /\ ~Has(active', u)

OpenCommands == {"problem"}
PracOpenCommands == {"prac square", "prac modinv"}
\* "Correct! Solution" of math_submit and "Solution" of math_giveup
CloseResults == {"solved", "solution"}

-----------------------------------------------------------------------------
(* C1: a problem request by a user who has an active problem is refused    *)
(* ("already active") and changes neither store; and across any step a     *)
(* user's stored problem, if still stored, is the same one: it is replaced *)
(* only after a close.  Both for MathCog.active and PracticeCog.problems.  *)
C1_SecondRequestRefused ==
    [][\A u \in Users :
         /\ (Called(u) /\ sent'.cmd \in OpenCommands /\ Has(active, u))
               => (sent'.msg = "already_active" /\ UNCHANGED <<active, problems>>)
         /\ (Called(u) /\ sent'.cmd \in PracOpenCommands /\ Has(problems, u))
               => (sent'.msg = "already_active" /\ UNCHANGED <<active, problems>>)
         /\ (Has(active, u) /\ Has(active', u)) => active'[u] = active[u]
         /\ (Has(problems, u) /\ Has(problems', u)) => problems'[u] = problems[u]
      ]_vars

\* A second request was refused while the user held a reopened session.
C1_Witness ==
    /\ sent.cmd = "problem"
    /\ sent.msg = "already_active"
    /\ Has(active, sent.user)
    /\ opened[sent.user] = 2

(* C2: every leaderboard entry satisfies 0 <= solved <= attempted.         *)
C2_SolvedAtMostAttempted ==
    \A u \in DOMAIN leaderboard :
        /\ 0 <= leaderboard[u].solved
        /\ leaderboard[u].solved <= leaderboard[u].attempted

\* A user with one solve and one give-up on record.
C2_Witness ==
    \E u \in DOMAIN leaderboard :
        leaderboard[u].solved = 1 /\ leaderboard[u].attempted = 2

(* C3: every step that closes a session adds exactly 1 to that user's      *)
(* attempted, and adds 1 to solved when it is a Correct submission and 0   *)
(* when it is a give-up: no session is closed without its attempt being    *)
(* recorded.                                                               *)
C3_CloseRecordsAttempt ==
    [][\A u \in Users :
         Closes(u) =>
            /\ Attempted(leaderboard', u) = Attempted(leaderboard, u) + 1
            /\ Solved(leaderboard', u) =
                  Solved(leaderboard, u)
                  + (IF sent'.cmd = "submit" THEN 1 ELSE 0)
      ]_vars

(* C4: a user's solved or attempted counter changes only in a step of that *)
(* user's submit or giveup handler that closes the user's session and      *)
(* reports Correct or the solution.                                        *)
C4_CountersChangeOnlyOnClose ==
    [][\A u \in Users :
         Entry(leaderboard', u) # Entry(leaderboard, u) =>
            /\ Called(u)
            /\ Closes(u)
            /\ sent'.cmd \in {"submit", "giveup"}
            /\ sent'.msg \in CloseResults
      ]_vars

\* A counter has changed: a Correct submission was recorded.
C4_Witness ==
    /\ sent.cmd = "submit"
    /\ sent.msg = "solved"
    /\ Solved(leaderboard, sent.user) = 1

(* C5: a submission answered "invalid format" or "incorrect" (math submit, *)
(* prac submit) leaves the session map, the practice map and the ledger    *)
(* unchanged, and the user's session is still active after it.             *)
C5_RejectedSubmissionKeepsSession ==
    [][\A u \in Users :
         (Called(u) /\ sent'.msg \in {"invalid", "incorrect"}) =>
            /\ UNCHANGED <<active, leaderboard, problems>>
            /\ sent'.cmd = "submit" => Has(active', u)
            /\ sent'.cmd = "prac submit" => Has(problems', u)
      ]_vars

\* An Incorrect verdict on a session that is still open.
C5_Witness ==
    /\ sent.cmd = "submit"
    /\ sent.msg = "incorrect"
    /\ Has(active, sent.user)

(* C6: under any interleaving of a user's handlers at their sends, a       *)
(* session is opened only by a problem request of a user without one, a    *)
(* Correct or solution result is issued only by the step that closes the   *)
(* session, that step adds at most 1 to attempted, and the attempts on     *)
(* record plus the open session never exceed the sessions the user opened. *)
C6_OneOpenOneClosePerSession ==
    /\ [](\A u \in Users :
            Attempted(leaderboard, u) + (IF Has(active, u) THEN 1 ELSE 0)
               <= opened[u])
    /\ [][\A u \in Users :
            /\ opened'[u] # opened[u] =>
                  /\ ~Has(active, u) /\ Has(active', u)
                  /\ opened'[u] = opened[u] + 1
            /\ (Called(u) /\ sent'.cmd \in {"submit", "giveup"}
                          /\ sent'.msg \in CloseResults) => Closes(u)
            /\ Attempted(leaderboard', u) <= Attempted(leaderboard, u) + 1
         ]_vars

\* Two handlers of one user are suspended at their sends; the later one
\* found the session closed, and one attempt is on record for one session.
C6_Witness ==
    /\ sent.cmd \in {"submit", "giveup"}
    /\ sent.msg = "no_active"
    /\ awaiting[sent.user] = 2
    /\ opened[sent.user] = 1
    /\ Attempted(leaderboard, sent.user) = 1

(* C7: the user is never shown the success result of a Correct submission  *)
(* or a give-up whose ledger write failed: whenever such a result is sent, *)
(* its _update_leaderboard call committed.                                 *)
C7_SuccessOnlyAfterCommit ==
    (sent.cmd \in {"submit", "giveup"} /\ sent.msg \in CloseResults)
        => sent.wrote

(* C8: in the step that hands the result of a Correct submission or a      *)
(* give-up to ctx.send, the ledger increment of that command has been      *)
(* committed: attempted of that user is one more than before the command.  *)
C8_IncrementBeforeResult ==
    [][\A u \in Users :
         (Called(u) /\ sent'.cmd \in {"submit", "giveup"}
                    /\ sent'.msg \in CloseResults)
            => Attempted(leaderboard', u) = Attempted(leaderboard, u) + 1
      ]_vars

(* C9: submit and giveup by a user without an active session answer "no    *)
(* active problem", current answers in any state, and these steps change   *)
(* neither session map nor the ledger.  Both for MathCog and PracticeCog.  *)
C9_NoSessionCommandsChangeNothing ==
    [][\A u \in Users :
         Called(u) =>
            /\ (sent'.cmd \in {"submit", "giveup"} /\ ~Has(active, u)) =>
                  /\ sent'.msg = "no_active"
                  /\ UNCHANGED <<active, leaderboard, problems>>
            /\ (sent'.cmd \in {"prac submit", "prac giveup"}
                   /\ ~Has(problems, u)) =>
                  /\ sent'.msg = "no_active"
                  /\ UNCHANGED <<active, leaderboard, problems>>
            /\ sent'.cmd \in {"current", "prac current"} =>
                  /\ sent'.msg \in {"no_active", "current", "error"}
                  /\ UNCHANGED <<active, leaderboard, problems>>
      ]_vars

\* A give-up without a session, after the user's session was closed.
C9_Witness ==
    /\ sent.cmd = "giveup"
    /\ sent.msg = "no_active"
    /\ opened[sent.user] = 1
    /\ ~Has(active, sent.user)

(* C10: a step of a handler of user A leaves the session entry, the        *)
(* practice entry and the ledger entry of every other user unchanged.      *)
C10_OtherUsersUnchanged ==
    [][\A u \in Users, v \in Users :
         (Called(u) /\ v # u) =>
            /\ Entry(active', v) = Entry(active, v)
            /\ Entry(leaderboard', v) = Entry(leaderboard, v)
            /\ Entry(problems', v) = Entry(problems, v)
      ]_vars

\* u1's give-up was recorded while u2 held a session and a ledger entry.
C10_Witness ==
    /\ sent.user = "u1"
    /\ sent.cmd = "giveup"
    /\ sent.msg = "solution"
    /\ Has(leaderboard, "u1")
    /\ Has(active, "u2")
    /\ Has(leaderboard, "u2")

-----------------------------------------------------------------------------
(* The state of the cogs before any command, where a function's            *)
(* specification leaves it.                                                *)

BotIdle ==
    /\ active = EmptyDict
    /\ problems = EmptyDict
    /\ opened = [u \in Users |-> 0]
    /\ awaiting = [u \in Users |-> 0]
    /\ sent = NoMessage
    /\ cog = None
    /\ potd = PotdCog

-----------------------------------------------------------------------------
(* _update_leaderboard on its own: calls for any user with any deltas of   *)
(* the record contract; each call commits or meets a sqlite3.Error.        *)

\* _update_leaderboard calls in a run
MaxCalls == 3
\* solved_inc and attempted_inc
Deltas == {0, 1}

LedgerInit ==
    /\ BotIdle
    /\ leaderboard = EmptyDict
    /\ fn = [op |-> "_update_leaderboard", calls |-> <<>>]

UpdateLeaderboardCall(uid, solved_inc, attempted_inc) ==
    /\ Len(fn.calls) < MaxCalls
    /\ \E writeOk \in BOOLEAN :
          leaderboard' = UpdateLeaderboard(leaderboard, uid, solved_inc,
                                           attempted_inc, writeOk)
    /\ fn' = [fn EXCEPT !.calls =
                 Append(@, [uid |-> uid, solved |-> solved_inc,
                            attempted |-> attempted_inc])]
    /\ UNCHANGED <<active, problems, opened, awaiting, sent, cog,
                   potd>>

LedgerNext ==
    \E uid \in Users, solved_inc \in Deltas, attempted_inc \in Deltas :
        UpdateLeaderboardCall(uid, solved_inc, attempted_inc)

SpecLedger == LedgerInit /\ [][LedgerNext]_vars

\* The sum of one delta over the calls made for uid.
RECURSIVE SumOfDeltas(_, _, _)
SumOfDeltas(calls, uid, column) ==
    IF calls = <<>> THEN 0
    ELSE (IF Head(calls).uid = uid THEN Head(calls)[column] ELSE 0)
         + SumOfDeltas(Tail(calls), uid, column)

(* C11: the record operation is an upsert: a user for whom no call was     *)
(* made has no entry, and after any number of calls the user's entry holds *)
(* the sum of the solved deltas and the sum of the attempted deltas passed *)
(* for that user (the first call creating the entry with its deltas).      *)
C11_LedgerIsSumOfDeltas ==
    \A u \in Users :
        IF \E i \in 1..Len(fn.calls) : fn.calls[i].uid = u
        THEN /\ Has(leaderboard, u)
             /\ leaderboard[u].solved = SumOfDeltas(fn.calls, u, "solved")
             /\ leaderboard[u].attempted
                   = SumOfDeltas(fn.calls, u, "attempted")
        ELSE ~Has(leaderboard, u)

-----------------------------------------------------------------------------
(* _check_answer on its own: one call, on a text of the lexicon in one of  *)
(* its presentations, against a canonical answer.                          *)

\* float(N(correct_expr, 15)): 1/2, 1, 2 and 5
Canonicals == {Unit \div 2, Unit, 2 * Unit, 5 * Unit}

Wrappers ==
    {"plain", "dollar", "boxed", "dollar boxed", "display", "display boxed",
     "spaced", "boxed spaced"}

\* A text as users present it: bare, in $...$, in \boxed{...}, in
\* $\boxed{...}$, in $$...$$, in $$\boxed{...}$$, between blanks, and in
\* \boxed {...} with a blank after the marker.
Wrap(wrapper, core) ==
    CASE wrapper = "plain" -> core
      [] wrapper = "dollar" -> <<"$">> \o core \o <<"$">>
      [] wrapper = "boxed" -> <<Boxed, "{">> \o core \o <<"}">>
      [] wrapper = "dollar boxed" ->
            <<"$", Boxed, "{">> \o core \o <<"}", "$">>
      [] wrapper = "display" -> <<"$", "$">> \o core \o <<"$", "$">>
      [] wrapper = "display boxed" ->
            <<"$", "$", Boxed, "{">> \o core \o <<"}", "$", "$">>
      [] wrapper = "spaced" -> <<" ">> \o core \o <<" ">>
      [] wrapper = "boxed spaced" -> <<Boxed, " ", "{">> \o core \o <<"}">>

\* No result yet.
NoResult == <<>>

CheckInit ==
    /\ BotIdle
    /\ leaderboard = EmptyDict
    /\ fn \in {[op |-> "_check_answer", core |-> entry.text,
                user_ans |-> Wrap(wrapper, entry.text), correct |-> correct,
                result |-> NoResult, host |-> "untouched"] :
                  entry \in Lexicon, wrapper \in Wrappers,
                  correct \in Canonicals}

CheckAnswerCall ==
    /\ fn.result = NoResult
    /\ fn' = [fn EXCEPT !.result = CheckUserAnswer(fn.user_ans, fn.correct),
                        !.host = HostAfter(fn.user_ans, @)]
    /\ UNCHANGED <<active, leaderboard, problems, opened, awaiting, sent, cog,
                   potd>>

CheckNext == CheckAnswerCall

SpecCheck == CheckInit /\ [][CheckNext]_vars

\* The call has returned; what the two evaluators make of its cleaned text.
Returned == fn.result # NoResult
Cleaned == Describe(CleanedText(fn.user_ans))

(* C12: the verdict on a submission with a real value is Correct exactly   *)
(* when |submitted value - canonical value| < 1e-6, the values being the   *)
(* decimal numbers submitted and stored: Incorrect at a difference of      *)
(* exactly 1e-6, Correct at 9.9e-7 and at equality.                        *)
C12_CorrectWithinTolerance ==
    (Returned /\ Cleaned.parse = "closed" /\ Cleaned.pval.kind = "finite")
        => fn.result = IF Abs(Cleaned.pval.n - fn.correct) < Tolerance
                       THEN Correct ELSE Wrong

(* C13: a submission whose parsed expression has a free symbol gets the    *)
(* verdict InvalidFormat, also when the eval fallback would have made a    *)
(* number of the text: it is never judged Correct or Incorrect.            *)
C13_FreeSymbolIsInvalid ==
    (Returned /\ Cleaned.parse = "free") => fn.result = Invalid

\* "50e-1" against 5: symbols to parse_latex, 5.0 to eval, judged invalid.
C13_Witness ==
    /\ Returned
    /\ Cleaned.parse = "free"
    /\ Cleaned.ev = "num"
    /\ Cleaned.eval = Num(fn.correct)
    /\ fn.result = Invalid

\* The value the text evaluates to, on the path it takes, is no real number.
NotReal(ans) ==
    \/ ans.parse = "closed" /\ ans.pval.kind # "finite"
    \/ ans.parse = "complex"
    \/ EvalReached(ans) /\ ans.ev = "other"
    \/ EvalReached(ans) /\ ans.ev = "num" /\ ans.eval.kind # "finite"

(* C14: _check_answer returns one of the three verdicts, and whenever the  *)
(* value of the submission is no real number (complex, NaN, infinite, or   *)
(* of a non-numeric type), on the parse path or on the fallback path, the  *)
(* verdict is InvalidFormat.                                               *)
C14_NotRealIsInvalid ==
    Returned =>
        /\ fn.result \in {Correct, Invalid, Wrong}
        /\ NotReal(Cleaned) => fn.result = Invalid

\* Texts that refer to a name, read an attribute or call a function.
CodeLikeTexts == {entry.text : entry \in CodeLike \cup Symbolic}

(* C15: a submission that looks like a function call, an attribute access  *)
(* or an identifier reference gets the verdict InvalidFormat and leaves    *)
(* the host as it was: evaluating it runs nothing on the host.             *)
C15_CodeLikeIsInert ==
    (Returned /\ Cleaned.text \in CodeLikeTexts)
        => (fn.result = Invalid /\ fn.host = "untouched")

(* C16: submissions that differ only in presentation get the same verdict: *)
(* a text in dollars, boxed, or between blanks is judged as the bare text; *)
(* against 5, the inputs "5", "$5$", boxed 5 and "2+3" are Correct and "6" *)
(* is Incorrect.                                                           *)
C16_PresentationIndependent ==
    Returned =>
        /\ fn.result = CheckUserAnswer(fn.core, fn.correct)
        /\ (/\ fn.correct = 5 * Unit
            /\ fn.user_ans \in {<<"5">>, <<"$", "5", "$">>,
                                <<Boxed, "{", "5", "}">>,
                                <<"$", Boxed, "{", "5", "}", "$">>,
                                <<"2+3">>})
              => fn.result = Correct
        /\ (fn.correct = 5 * Unit /\ fn.user_ans = <<"6">>)
              => fn.result = Wrong

-----------------------------------------------------------------------------
(* _clean_answer_latex on its own: applied to a text, and again to its own *)
(* result.  The texts are all token sequences up to a length, and the      *)
(* answers of the tests.                                                   *)

\* tokens in a text
MaxLen == 4
\* applications of _clean_answer_latex to a text
MaxApplications == 2

NormTokens == {Boxed, "{", "}", "$", " ", "5"}
NormExamples ==
    { <<Boxed, "{", "5", "}">>,
      <<"$", "$", "5", "$", "$">>,
      <<"$", "$", Boxed, "{", "3", "}", "$", "$">>,
      <<Boxed, "{", "5", "}", "+", Boxed, "{", "3", "}">>,
      <<Boxed, "{", Boxed, "{", "5", "}", "}">> }
NormTexts ==
    UNION {[1..len -> NormTokens] : len \in 0..MaxLen} \cup NormExamples

NormInit ==
    /\ BotIdle
    /\ leaderboard = EmptyDict
    /\ fn \in {[op |-> "_clean_answer_latex", ans |-> ans, results |-> <<>>] :
                  ans \in NormTexts}

\* _clean_answer_latex(ans), then _clean_answer_latex of what it returned.
CleanAnswerLatexCall ==
    /\ Len(fn.results) < MaxApplications
    /\ fn' = [fn EXCEPT !.results =
                 Append(@, CleanAnswerLatex(IF @ = <<>> THEN fn.ans
                                            ELSE @[Len(@)]))]
    /\ UNCHANGED <<active, leaderboard, problems, opened, awaiting, sent, cog,
                   potd>>

NormNext == CleanAnswerLatexCall

SpecNorm == NormInit /\ [][NormNext]_vars

(* C17: normalization is idempotent: for every text s,                     *)
(* _clean_answer_latex(_clean_answer_latex(s)) = _clean_answer_latex(s).   *)
C17_NormalizeIdempotent ==
    Len(fn.results) >= 2 => fn.results[2] = fn.results[1]

\* The tokens of a text that are neither delimiters, braces, markers nor
\* whitespace.
Content(s) ==
    SelectSeq(s, LAMBDA t : t \notin {"$", "{", "}", Boxed} \cup Whitespace)

\* The number of "$" a text starts with.
RECURSIVE DollarRun(_)
DollarRun(s) ==
    IF s # <<>> /\ Head(s) = "$" THEN 1 + DollarRun(Tail(s)) ELSE 0

\* Each run of m "$" cut to the m \div 2 pairs, collapsed, and the odd one.
RECURSIVE HalveDollarRuns(_)
HalveDollarRuns(s) ==
    IF s = <<>> THEN <<>>
    ELSE IF Head(s) = "$"
    THEN [i \in 1..((DollarRun(s) + 1) \div 2) |-> "$"]
         \o HalveDollarRuns(SubSeq(s, DollarRun(s) + 1, Len(s)))
    ELSE <<Head(s)>> \o HalveDollarRuns(Tail(s))

Occurs(t, s) == \E i \in 1..Len(s) : s[i] = t

\* ans holds one marker, at i, its "{" at j after whitespace only, and the
\* first "}" after that at c.
OneBoxed(ans, i, j, c) ==
    /\ i < j /\ j < c
    /\ ans[i] = Boxed
    /\ \A x \in 1..Len(ans) : ans[x] = Boxed => x = i
    /\ \A x \in (i + 1)..(j - 1) : ans[x] \in Whitespace
    /\ ans[j] = "{"
    /\ ans[c] = "}"
    /\ \A x \in (j + 1)..(c - 1) : ans[x] # "}"

(* C18: normalization replaces a boxed marker with its brace-delimited     *)
(* payload by the payload, which ends at the first closing brace, and then *)
(* collapses each "$$" into "$"; everything else is unchanged: a text with *)
(* no marker comes out with each run of dollars halved, a text with        *)
(* neither comes out as it is, and the content tokens are the same, in the *)
(* same order.  \boxed{5} gives 5, $$5$$ gives $5$, $$\boxed{3}$$ gives    *)
(* $3$.                                                                    *)
C18_NormalizeUnwraps ==
    Len(fn.results) >= 1 =>
        LET ans == fn.ans
            out == fn.results[1]
        IN /\ Content(out) = Content(ans)
           /\ ~Occurs(Boxed, ans) => out = HalveDollarRuns(ans)
           /\ \A i \in 1..Len(ans), j \in 1..Len(ans), c \in 1..Len(ans) :
                 OneBoxed(ans, i, j, c) =>
                    out = HalveDollarRuns(SubSeq(ans, 1, i - 1)
                                          \o SubSeq(ans, j + 1, c - 1)
                                          \o SubSeq(ans, c + 1, Len(ans)))
           /\ ans = <<Boxed, "{", "5", "}">> => out = <<"5">>
           /\ ans = <<"$", "$", "5", "$", "$">> => out = <<"$", "5", "$">>
           /\ ans = <<"$", "$", Boxed, "{", "3", "}", "$", "$">>
                 => out = <<"$", "3", "$">>
           /\ ans = <<Boxed, "{", "5", "}", "+", Boxed, "{", "3", "}">>
                 => out = <<"5", "+", "3">>

\* $$\boxed{3}$$ has been normalized to $3$.
C18_Witness ==
    /\ fn.ans = <<"$", "$", Boxed, "{", "3", "}", "$", "$">>
    /\ Len(fn.results) >= 1
    /\ fn.results[1] = <<"$", "3", "$">>

-----------------------------------------------------------------------------
(* The SELECT of math_leaderboard on its own, over the tables of three     *)
(* users.  A row with attempted = 0 is what migrate_leaderboard.py writes  *)
(* for a user without "attempted" in the old JSON.                         *)

\* the largest counter in a table
MaxScore == 5

BoardUsers == {"A", "B", "C"}
Scores ==
    {r \in [solved : 0..MaxScore, attempted : 0..MaxScore] :
        r.solved <= r.attempted}

\* sort_by, and str.lower() on it
SortArguments == {None, "solved", "rate", "solve_rate", "Rate"}
Lower(s) == IF s = "Rate" THEN "rate" ELSE s

\* lines 444-450: the ORDER BY clause chosen
OrderOf(sort_by) ==
    LET key == Lower(IF sort_by = None THEN "solved" ELSE sort_by)
    IN IF key \in {"rate", "solve_rate"} THEN "rate" ELSE "solved"

\* Variant: the order ascending.
PrecedesAscending(order, r1, r2) ==
    IF order = "solved" THEN r1.solved < r2.solved
    ELSE IF r2.attempted = 0 THEN FALSE
    ELSE IF r1.attempted = 0 THEN TRUE
    ELSE r1.solved * r2.attempted < r2.solved * r1.attempted

\* ORDER BY solved DESC, or ORDER BY CAST(solved AS FLOAT)/attempted DESC:
\* r1 sorts strictly before r2.  A division by 0 is NULL in SQLite, and
\* NULL sorts after every value under DESC.
Precedes(order, r1, r2) ==
    IF order = "solved" THEN r1.solved > r2.solved
    ELSE IF r1.attempted = 0 THEN FALSE
    ELSE IF r2.attempted = 0 THEN TRUE
    ELSE r1.solved * r2.attempted > r2.solved * r1.attempted

Row(led, uid) ==
    [user_id |-> uid, solved |-> led[uid].solved,
     attempted |-> led[uid].attempted]

\* SELECT user_id, solved, attempted FROM leaderboard ORDER BY ...,
\* fetchall(): every row, in an order the clause allows (rows with equal
\* keys come in an order SQL leaves open).
SelectOrdered(led, order) ==
    LET n == Cardinality(DOMAIN led)
        orders == {f \in [1..n -> DOMAIN led] :
                      \A i \in 1..n, j \in 1..n : i # j => f[i] # f[j]}
    IN {[i \in 1..n |-> Row(led, f[i])] : f \in
           {f \in orders :
               \A i \in 1..n, j \in 1..n :
                  i < j => ~Precedes(order, Row(led, f[j]), Row(led, f[i]))}}

BoardInit ==
    /\ BotIdle
    /\ leaderboard \in [BoardUsers -> Scores]
    /\ fn = [op |-> "math_leaderboard", status |-> "pending",
             sort_by |-> None, rows |-> <<>>]

\* math_leaderboard, lines 444-480: the SELECT, then one line per row in
\* the order of the rows (each name looked up, which may raise), then the
\* send; any exception ends in the error message.
LeaderboardQuery(sort_by) ==
    /\ fn.status = "pending"
    /\ \E readOk \in BOOLEAN, lookupOk \in BOOLEAN :
          IF readOk /\ lookupOk
          THEN \E rows \in SelectOrdered(leaderboard, OrderOf(sort_by)) :
                  fn' = [fn EXCEPT !.status = "rows", !.sort_by = sort_by,
                                   !.rows = rows]
          ELSE fn' = [fn EXCEPT !.status = "error", !.sort_by = sort_by]
    /\ UNCHANGED <<active, leaderboard, problems, opened, awaiting, sent, cog,
                   potd>>

BoardNext == \E sort_by \in SortArguments : LeaderboardQuery(sort_by)

SpecBoard == BoardInit /\ [][BoardNext]_vars

\* solved/attempted of r1 is at least that of r2, attempted = 0 counting as
\* rate 0.
RateAtLeast(r1, r2) ==
    LET num(r) == IF r.attempted = 0 THEN 0 ELSE r.solved
        den(r) == IF r.attempted = 0 THEN 1 ELSE r.attempted
    IN num(r1) * den(r2) >= num(r2) * den(r1)

(* C19: the leaderboard query returns every entry, once; for the default   *)
(* key in order of solved descending; for the rate key in order of         *)
(* solved/attempted descending, entries with attempted = 0 counting as     *)
(* rate 0 and coming last; A 3/5, B 4/4, C 0/2 come as B, A, C under both. *)
C19_LeaderboardOrdered ==
    fn.status = "rows" =>
        LET rows == fn.rows
            n == Len(rows)
        IN /\ n = Cardinality(DOMAIN leaderboard)
           /\ {rows[i].user_id : i \in 1..n} = DOMAIN leaderboard
           /\ \A i \in 1..n : rows[i] = Row(leaderboard, rows[i].user_id)
           /\ fn.sort_by \in {None, "solved"} =>
                 \A i \in 1..n, j \in 1..n :
                    i < j => rows[i].solved >= rows[j].solved
           /\ fn.sort_by \in {"rate", "solve_rate"} =>
                 \A i \in 1..n, j \in 1..n :
                    i < j => /\ RateAtLeast(rows[i], rows[j])
                             /\ rows[i].attempted = 0
                                   => rows[j].attempted = 0
           /\ (/\ leaderboard["A"] = [solved |-> 3, attempted |-> 5]
               /\ leaderboard["B"] = [solved |-> 4, attempted |-> 4]
               /\ leaderboard["C"] = [solved |-> 0, attempted |-> 2]
               /\ fn.sort_by \in {None, "solved", "rate", "solve_rate"})
                 => <<rows[1].user_id, rows[2].user_id, rows[3].user_id>>
                       = <<"B", "A", "C">>

\* A 3/5, B 4/4, C 0/2 queried by rate: B, A, C.
C19_Witness ==
    /\ fn.status = "rows"
    /\ fn.sort_by = "rate"
    /\ leaderboard["A"] = [solved |-> 3, attempted |-> 5]
    /\ leaderboard["B"] = [solved |-> 4, attempted |-> 4]
    /\ leaderboard["C"] = [solved |-> 0, attempted |-> 2]
    /\ fn.rows[1].user_id = "B"
    /\ fn.rows[3].user_id = "C"

-----------------------------------------------------------------------------
(* Ingestion of the problem files: _populate_problems of the cog and the   *)
(* body of populate_db.py, line by line over a file, then the commit.      *)

\* the longest file
MaxLines == 3

Routines == {"math.py", "populate_db.py"}

\* "answer" fields: a number, a boxed number, a symbol, and a boxed
\* fraction (which the cleaning leaves with unbalanced braces).
IngestAnswers ==
    { <<"5">>,
      <<Boxed, "{", "5", "}">>,
      <<"x">>,
      <<Boxed, "{", "\\frac", "{", "1", "}", "{", "2", "}", "}">> }

\* A line of a file: no JSON, or an object with an answer, with or without
\* the keys "problem" and "solution".
MalformedLine == [json |-> FALSE, complete |-> FALSE, answer |-> <<>>]
FileLines ==
    {MalformedLine}
        \cup [json : {TRUE}, complete : BOOLEAN, answer : IngestAnswers]

Files ==
    UNION {[1..n -> FileLines] : n \in 0..MaxLines}

\* Variant: only the parse is tested.
IngestibleWithSymbols(ans_tex) == Describe(ans_tex).parse # "raise"

\* expr = parse_latex(ans_tex) returns and expr.free_symbols is empty
Ingestible(ans_tex) == Describe(ans_tex).parse = "closed"

NoRows == <<>>

IngestInit ==
    /\ BotIdle
    /\ leaderboard = EmptyDict
    /\ \E routine \in Routines, lines \in Files :
          fn = [op |-> "_populate_problems", routine |-> routine,
                lines |-> lines, pos |-> 1, status |-> "reading",
                rows |-> NoRows, failed |-> {}, bank |-> NoRows]

Inserted(call, ans_tex) ==
    [call EXCEPT !.rows = Append(@, [line |-> call.pos,
                                     answer_tex |-> ans_tex]),
                 !.pos = @ + 1]
Skipped(call) == [call EXCEPT !.pos = @ + 1]
Aborted(call) == [call EXCEPT !.status = "aborted"]

\* math.py, lines 78-98: one line of the file; every exception is caught
\* and the line skipped.
PopulateLine(call, writeOk) ==
    LET ex == call.lines[call.pos]
        ans_tex == CleanAnswerLatex(ex.answer)
    IN IF ~ex.json THEN Skipped(call)
       ELSE IF ~Ingestible(ans_tex) THEN Skipped(call)
       ELSE IF ~writeOk
            THEN [Skipped(call) EXCEPT !.failed = @ \cup {call.pos}]
       ELSE Inserted(call, ans_tex)

\* populate_db.py, lines 34-45: json.loads, ex["problem"] and the INSERT
\* are outside the try.
ScriptLine(call, writeOk) ==
    LET ex == call.lines[call.pos]
        ans == CleanAnswerLatex(ex.answer)
    IN IF ~ex.json THEN Aborted(call)
       ELSE IF ~Ingestible(ans) THEN Skipped(call)
       ELSE IF ~ex.complete THEN Aborted(call)
       ELSE IF ~writeOk
            THEN [Aborted(call) EXCEPT !.failed = @ \cup {call.pos}]
       ELSE Inserted(call, ans)

IngestLine ==
    /\ fn.status = "reading"
    /\ fn.pos <= Len(fn.lines)
    /\ \E writeOk \in BOOLEAN :
          fn' = IF fn.routine = "math.py"
                THEN PopulateLine(fn, writeOk)
                ELSE ScriptLine(fn, writeOk)
    /\ UNCHANGED <<active, leaderboard, problems, opened, awaiting, sent, cog,
                   potd>>

\* conn.commit() after the loop (math.py line 64, populate_db.py line 46)
IngestCommit ==
    /\ fn.status = "reading"
    /\ fn.pos > Len(fn.lines)
    /\ fn' = [fn EXCEPT !.status = "committed", !.bank = fn.rows]
    /\ UNCHANGED <<active, leaderboard, problems, opened, awaiting, sent, cog,
                   potd>>

IngestNext == IngestLine \/ IngestCommit

SpecIngest == IngestInit /\ [][IngestNext]_vars

\* the lines read so far
ReadLines == 1..(fn.pos - 1)
BadAnswer(ex) ==
    ex.json /\ Describe(CleanAnswerLatex(ex.answer)).parse # "closed"
RowsOf(i) == {k \in 1..Len(fn.rows) : fn.rows[k].line = i}

(* C20: every record of the problem bank has an answer that parses without *)
(* free symbols; an entry whose cleaned answer does not parse, or parses   *)
(* with free symbols, is skipped and never inserted, and does not stop the *)
(* ingestion: the entries read whose answers are closed are inserted, once *)
(* and in the order of the file (but for one whose INSERT failed).         *)
C20_BankAnswersClosed ==
    /\ \A k \in 1..Len(fn.rows) :
          LET row == fn.rows[k]
          IN /\ row.line \in ReadLines
             /\ row.answer_tex = CleanAnswerLatex(fn.lines[row.line].answer)
             /\ Describe(row.answer_tex).parse = "closed"
             /\ \A j \in 1..Len(fn.rows) :
                   j < k => fn.rows[j].line < row.line
    /\ \A i \in ReadLines :
          LET ex == fn.lines[i]
          IN /\ BadAnswer(ex) => RowsOf(i) = {}
             /\ (ex.json /\ ~BadAnswer(ex) /\ i \notin fn.failed)
                   => RowsOf(i) # {}
    /\ fn.status = "aborted" => ~BadAnswer(fn.lines[fn.pos])
    /\ fn.status = "committed" => fn.bank = fn.rows
    /\ fn.status # "committed" => fn.bank = NoRows

\* A file of a symbol, a boxed fraction and a boxed number, ingested: the
\* bank holds the number.
C20_Witness ==
    /\ fn.status = "committed"
    /\ Len(fn.lines) = 3
    /\ fn.lines[1].answer = <<"x">>
    /\ fn.lines[2].answer =
          <<Boxed, "{", "\\frac", "{", "1", "}", "{", "2", "}", "}">>
    /\ fn.lines[3].answer = <<Boxed, "{", "5", "}">>
    /\ fn.bank = <<[line |-> 3, answer_tex |-> <<"5">>]>>

-----------------------------------------------------------------------------
(* Rendering, solutions and the session cycle of MathCog (Spec)            *)

(* C21: a step whose text goes out raw because rendering failed changes    *)
(* the session map and the ledger as the step with a rendered image does:  *)
(* a problem request has opened the user's session, a Correct submission   *)
(* or a give-up has closed it and its ledger increment (1/1 or 0/1) is in  *)
(* the table when the write committed, and a view of the current problem   *)
(* changes neither; no other user's session changes.                       *)
C21_RenderFailureKeepsState ==
    [][\A u \in Users :
         (Called(u) /\ sent'.raw) =>
            /\ sent'.cmd \in {"problem", "submit", "giveup", "current"}
            /\ sent'.cmd = "problem" =>
                  /\ ~Has(active, u)
                  /\ Has(active', u)
                  /\ leaderboard' = leaderboard
            /\ sent'.cmd = "submit" =>
                  /\ sent'.msg = "solved"
                  /\ Closes(u)
                  /\ leaderboard' =
                        UpdateLeaderboard(leaderboard, u, 1, 1, sent'.wrote)
            /\ sent'.cmd = "giveup" =>
                  /\ sent'.msg = "solution"
                  /\ Closes(u)
                  /\ leaderboard' =
                        UpdateLeaderboard(leaderboard, u, 0, 1, sent'.wrote)
            /\ sent'.cmd = "current" => UNCHANGED <<active, leaderboard>>
            /\ \A v \in Users \ {u} : Entry(active', v) = Entry(active, v)
      ]_vars

\* The solution of a Correct submission went out raw; the session is
\* closed and the solve is on record.
C21_Witness ==
    /\ sent.raw
    /\ sent.cmd = "submit"
    /\ sent.wrote
    /\ ~Has(active, sent.user)
    /\ Solved(leaderboard, sent.user) = 1

(* C22: a message with the solution ("Correct! Solution", "Solution") is   *)
(* sent only by a submit handler whose verdict was Correct or by a giveup  *)
(* handler, of a user who had an active session; a verdict of wrong gets   *)
(* the try-again message and a verdict of invalid the invalid-format one.  *)
C22_SolutionOnlyOnCorrectOrGiveup ==
    [][\A u \in Users :
         (Called(u) /\ cog = "math") =>
            /\ sent'.user = u
            /\ sent'.msg \in CloseResults =>
                  /\ Has(active, u)
                  /\ \/ sent'.cmd = "submit" /\ sent'.verdict = Correct
                     \/ sent'.cmd = "giveup"
            /\ sent'.verdict = Wrong => sent'.msg = "incorrect"
            /\ sent'.verdict = Invalid => sent'.msg = "invalid"
      ]_vars

\* A wrong answer got the try-again message, and after it an invalid one
\* would: the session is open.
C22_Witness ==
    /\ sent.cmd = "submit"
    /\ sent.verdict = Wrong
    /\ sent.msg = "incorrect"
    /\ Has(active, sent.user)
    /\ opened[sent.user] = 2

\* A command can be taken: the model's cap on suspended handlers is not
\* reached.
CanCall == cog = "math" /\ InFlight < MaxInFlight

(* C23: every user starts without a session; in every reachable state a    *)
(* user with a session can give up, every give-up of a user with a session *)
(* closes it (whatever the SELECT, the ledger write and the rendering do), *)
(* and a user without a session can open one by a problem request, the     *)
(* problems table not being empty.                                         *)
C23_NoTerminalState ==
    /\ active = EmptyDict
    /\ [](\A u \in Users :
            CanCall =>
               /\ Has(active, u) =>
                     ENABLED (MathGiveup(u) /\ UNCHANGED <<cog, fn, potd>>)
               /\ (~Has(active, u) /\ opened[u] < MaxSessions) =>
                     ENABLED (/\ MathProblem(u)
                              /\ Has(active', u)
                              /\ UNCHANGED <<cog, fn, potd>>))
    /\ [][\A u \in Users :
            (Called(u) /\ sent'.cmd = "giveup" /\ Has(active, u))
               => ~Has(active', u)
         ]_vars

\* A give-up whose SELECT failed: the session is closed, and the user had
\* opened a second one before.
C23_Witness ==
    /\ sent.cmd = "giveup"
    /\ sent.msg = "error"
    /\ ~Has(active, sent.user)
    /\ opened[sent.user] = 2

-----------------------------------------------------------------------------
(* The arguments of `math problem`: the two re.search calls of             *)
(* math_problem on their own.  An argument text is a sequence of tokens:   *)
(* the keys with their "=", blanks, digits, and words without blanks.      *)

\* the longest argument text
MaxArgLen == 4

Digits == {"2", "3", "5"}
DigitValue(t) == IF t = "2" THEN 2 ELSE IF t = "3" THEN 3 ELSE 5
ArgTokens == {"subject=", "SUBJECT=", "level=", " ", "geometry", "3"}
\* The argument texts of test_parse_problem_args_basic, _order_and_spaces
\* and _case_insensitive.
ArgsBasic == <<"subject=", "Algebra", " ", "level=", "2">>
ArgsOrderAndSpaces ==
    <<"level=", "3", " ", "subject=", "Counting", " ", "&", " ",
      "Probability">>
ArgsUpperCase == <<"SUBJECT=", "geometry", " ", "LEVEL=", "5">>
ArgTexts ==
    UNION {[1..n -> ArgTokens] : n \in 0..MaxArgLen}
        \cup {ArgsBasic, ArgsOrderAndSpaces, ArgsUpperCase}

\* subject left at None
NoSubject == <<>>

\* The longest run of tokens of a class that starts at position i.
RECURSIVE RunFrom(_, _, _)
RunFrom(text, i, class) ==
    IF i > Len(text) \/ text[i] \notin class THEN <<>>
    ELSE <<text[i]>> \o RunFrom(text, i + 1, class)

\* re.search(key + "(class+)", text).group(1): the run after the leftmost
\* key that has a token of the class behind it; <<>> for no match.
SearchGroup(text, key, class) ==
    LET hits == {i \in 1..(Len(text) - 1) :
                    text[i] = key /\ text[i + 1] \in class}
    IN IF hits = {} THEN <<>>
       ELSE RunFrom(text, (CHOOSE i \in hits : \A j \in hits : i <= j) + 1,
                    class)

\* int() of a run of digits
RECURSIVE IntOf(_)
IntOf(digits) ==
    IF digits = <<>> THEN 0
    ELSE 10 * IntOf(SubSeq(digits, 1, Len(digits) - 1))
         + DigitValue(digits[Len(digits)])

\* the tokens [^\s] matches
NonSpace(text) == {text[i] : i \in 1..Len(text)} \ Whitespace

\* math_problem, lines 320-322: re.search(r"subject=([^\s]+)", args)
SubjectOf(args) == SearchGroup(args, "subject=", NonSpace(args))

\* math_problem, lines 323-325: re.search(r"level=(\d+)", args)
LevelOf(args) ==
    LET digits == SearchGroup(args, "level=", Digits)
    IN IF digits = <<>> THEN NoLevel ELSE IntOf(digits)

\* math_problem, lines 317-325; `if args:` skips the empty text.
ParseProblemArgs(args) ==
    IF args = <<>> THEN [subject |-> NoSubject, level |-> NoLevel]
    ELSE [subject |-> SubjectOf(args), level |-> LevelOf(args)]

ArgsInit ==
    /\ BotIdle
    /\ leaderboard = EmptyDict
    /\ \E args \in ArgTexts :
          fn = [op |-> "math_problem", status |-> "called", args |-> args,
                subject |-> NoSubject, level |-> NoLevel]

ParseProblemArgsCall ==
    /\ fn.status = "called"
    /\ fn' = [fn EXCEPT !.status = "parsed",
                        !.subject = ParseProblemArgs(fn.args).subject,
                        !.level = ParseProblemArgs(fn.args).level]
    /\ UNCHANGED <<active, leaderboard, problems, opened, awaiting, sent, cog,
                   potd>>

ArgsNext == ParseProblemArgsCall

SpecArgs == ArgsInit /\ [][ArgsNext]_vars

\* The text with its keys in lower case.
LowerKeys(args) ==
    [i \in 1..Len(args) |->
        IF args[i] = "SUBJECT=" THEN "subject="
        ELSE IF args[i] = "LEVEL=" THEN "level="
        ELSE args[i]]

(* C24: the arguments of a problem request are parsed into subject and     *)
(* level whatever the order of the two keys, with the keys matched without *)
(* regard to case and a subject that may hold blanks: "level=3             *)
(* subject=Counting & Probability" gives "Counting & Probability" and 3,   *)
(* "SUBJECT=geometry LEVEL=5" gives "geometry" and 5.                      *)
C24_ArgumentsParsed ==
    fn.status = "parsed" =>
       /\ fn.args = ArgsBasic =>
             fn.subject = <<"Algebra">> /\ fn.level = 2
       /\ fn.args = ArgsOrderAndSpaces =>
             /\ fn.subject = <<"Counting", " ", "&", " ", "Probability">>
             /\ fn.level = 3
       /\ fn.args = ArgsUpperCase =>
             fn.subject = <<"geometry">> /\ fn.level = 5
       /\ ParseProblemArgs(LowerKeys(fn.args)) =
             [subject |-> fn.subject, level |-> fn.level]

-----------------------------------------------------------------------------
(* PotdCog._ordinal on its own: the text is the number, as given, and a    *)
(* suffix.                                                                 *)

\* the largest rank
MaxOrdinal == 125

\* {1: "st", 2: "nd", 3: "rd"}.get(n % 10, "th")
LastDigitSuffix(n) ==
    IF n % 10 = 1 THEN "st"
    ELSE IF n % 10 = 2 THEN "nd"
    ELSE IF n % 10 = 3 THEN "rd"
    ELSE "th"

\* Variant: the suffix by the last digit alone.
OrdinalByLastDigit(n) == [n |-> n, suffix |-> LastDigitSuffix(n)]

\* _ordinal, lines 234-239: f"{n}{suffix}"
Ordinal(n) ==
    [n |-> n,
     suffix |-> IF 10 <= n % 100 /\ n % 100 <= 20 THEN "th"
                ELSE LastDigitSuffix(n)]

NoText == [n |-> 0, suffix |-> ""]

OrdinalInit ==
    /\ BotIdle
    /\ leaderboard = EmptyDict
    /\ \E n \in 1..MaxOrdinal :
          fn = [op |-> "_ordinal", n |-> n, result |-> NoText]

OrdinalCall ==
    /\ fn.result = NoText
    /\ fn' = [fn EXCEPT !.result = Ordinal(fn.n)]
    /\ UNCHANGED <<active, leaderboard, problems, opened, awaiting, sent, cog,
                   potd>>

OrdinalNext == OrdinalCall

SpecOrdinal == OrdinalInit /\ [][OrdinalNext]_vars

(* C25: for every positive n, _ordinal(n) is n followed by "th" when       *)
(* n mod 100 is 11, 12 or 13, and otherwise by "st", "nd", "rd" for a last *)
(* digit of 1, 2, 3 and by "th" for any other last digit: 1st, 2nd, 3rd,   *)
(* 4th, 11th, 21st.                                                        *)
C25_OrdinalSuffix ==
    fn.result # NoText =>
       /\ fn.result.n = fn.n
       /\ fn.n % 100 \in {11, 12, 13} => fn.result.suffix = "th"
       /\ fn.n % 100 \notin {11, 12, 13} =>
             /\ fn.n % 10 = 1 => fn.result.suffix = "st"
             /\ fn.n % 10 = 2 => fn.result.suffix = "nd"
             /\ fn.n % 10 = 3 => fn.result.suffix = "rd"
             /\ fn.n % 10 \notin {1, 2, 3} => fn.result.suffix = "th"
       /\ fn.n = 1 => fn.result = [n |-> 1, suffix |-> "st"]
       /\ fn.n = 2 => fn.result = [n |-> 2, suffix |-> "nd"]
       /\ fn.n = 3 => fn.result = [n |-> 3, suffix |-> "rd"]
       /\ fn.n = 4 => fn.result = [n |-> 4, suffix |-> "th"]
       /\ fn.n = 11 => fn.result = [n |-> 11, suffix |-> "th"]
       /\ fn.n = 21 => fn.result = [n |-> 21, suffix |-> "st"]

\* _ordinal(112) returned "112th".
C25_Witness ==
    /\ fn.op = "_ordinal"
    /\ fn.n = 112
    /\ fn.result = [n |-> 112, suffix |-> "th"]

-----------------------------------------------------------------------------
(* PotdCog: the daily_post task and the potd submit command over the       *)
(* fields of the cog.  fn follows the task: where it is suspended (at the  *)
(* channel.send of post_rankings, at the sheet download of                 *)
(* get_problem_for_date), the rankings it posted in this run, how          *)
(* its last run ended, and the calendar day (which does not change during  *)
(* the download).  Handlers of potd submit run while the task is           *)
(* suspended.  The names in post_rankings are taken from the guild's       *)
(* member cache.                                                           *)

\* calendar days of a run
MaxDays == 2
\* counted submissions of one user for one problem
MaxTries == 2

Choices == {"A", "B", "C", "D", "E"}
\* str.upper() and str.strip() on the answers of the model
Upper(s) == IF s = "a" THEN "A" ELSE IF s = "b" THEN "B" ELSE s
StripText(s) == IF s = " B " THEN "B" ELSE s

\* The "Answer" cells of the sheet and the answers users type.
SheetAnswers == {"A", "b"}
TypedAnswers == {"a", " B ", "F"}

\* get_problem_for_date: the row of the day, or None
NoSheetRow == [Problem |-> "", Answer |-> ""]
SheetRows == [Problem : {"problem"}, Answer : SheetAnswers]

RECURSIVE SumOfValues(_)
SumOfValues(d) ==
    IF DOMAIN d = {} THEN 0
    ELSE LET k == CHOOSE k \in DOMAIN d : TRUE
         IN d[k] + SumOfValues(Del(d, k))

\* post_rankings, lines 107-139: the embed
NoRankings == [date |-> NoDate, total_attempts |-> 0, solved |-> EmptyDict,
               first |-> None]
Rankings(p) ==
    [date |-> p.current_date,
     total_attempts |-> SumOfValues(p.attempts),
     solved |-> p.solved,
     first |-> IF p.solve_order # <<>> THEN p.solve_order[1] ELSE None]

\* The reply of potd_submit, with the command's inputs.
PotdMessage(u, msg, guild, ans, rank, tries) ==
    [user |-> u, cmd |-> "potd submit", msg |-> msg, guild |-> guild,
     ans |-> ans, rank |-> rank, tries |-> tries]

PotdInit ==
    /\ BotIdle
    /\ leaderboard = EmptyDict
    /\ fn = [op |-> "daily_post", pc |-> "idle", clock |-> 1,
             posted |-> NoRankings, outcome |-> "none"]

PotdFrame ==
    UNCHANGED <<active, leaderboard, problems, opened, awaiting, cog>>

\* The calendar day passes.
Tick ==
    /\ fn.clock < MaxDays
    /\ fn.pc # "fetch"
    /\ fn' = [fn EXCEPT !.clock = @ + 1]
    /\ UNCHANGED <<potd, sent>>
    /\ PotdFrame

\* daily_post, lines 145-155, run by the loop or by potd_post: with a
\* current date, post_rankings up to its channel.send (or an exception of
\* it, which ends the run); without one, on to the sheet.
DailyPostBegin ==
    /\ fn.pc = "idle"
    /\ IF potd.current_date # NoDate
       THEN \E postOk \in BOOLEAN :
               IF postOk
               THEN fn' = [fn EXCEPT !.pc = "rankings",
                                     !.posted = Rankings(potd)]
               ELSE fn' = [fn EXCEPT !.posted = NoRankings,
                                     !.outcome = "failed"]
       ELSE fn' = [fn EXCEPT !.pc = "fetch", !.posted = NoRankings]
    /\ UNCHANGED <<potd, sent>>
    /\ PotdFrame

\* The channel.send of post_rankings completes: lines 154-155.
DailyPostRankingsSent ==
    /\ fn.pc = "rankings"
    /\ fn' = [fn EXCEPT !.pc = "fetch"]
    /\ UNCHANGED <<potd, sent>>
    /\ PotdFrame

\* Variant: the counts cleared when no row is found.
NoRowClears(p) ==
    [p EXCEPT !.attempts = EmptyDict, !.solved = EmptyDict,
              !.solve_order = <<>>]

\* daily_post, lines 156-161: no row for today
NoRowFound(p) == p

\* daily_post, lines 162-169
NewProblem(p, today, row) ==
    [current_date |-> today,
     current_problem |-> row.Problem,
     current_answer |-> Upper(StripText(row.Answer)),
     attempts |-> EmptyDict, solved |-> EmptyDict, solve_order |-> <<>>]

\* The sheet download completes (or raises): lines 156-176.  The
\* send_image_embed of line 171 calls MathCog._render_text_image without an
\* instance and raises TypeError, after the fields are set.
DailyPostFetched ==
    /\ fn.pc = "fetch"
    /\ \E fetchOk \in BOOLEAN, row \in SheetRows \cup {NoSheetRow} :
          IF ~fetchOk
          THEN /\ fn' = [fn EXCEPT !.pc = "idle", !.outcome = "failed"]
               /\ UNCHANGED potd
          ELSE IF row = NoSheetRow
          THEN /\ fn' = [fn EXCEPT !.pc = "idle", !.outcome = "no_row"]
               /\ potd' = NoRowFound(potd)
          ELSE /\ fn' = [fn EXCEPT !.pc = "idle", !.outcome = "reset"]
               /\ potd' = NewProblem(potd, fn.clock, row)
    /\ UNCHANGED sent
    /\ PotdFrame

\* Variant: any answer taken as a choice.
ValidChoiceAny(ans) == TRUE

\* potd_submit, line 213
ValidChoice(ans) == ans \in Choices

\* Variant: a solve recorded as solved at the first try.
RecordSolveFirstTry(p, user_id) ==
    [p EXCEPT !.solved = Put(@, user_id, 1),
              !.solve_order = Append(@, user_id)]

\* Variant: a solve put at the head of solve_order.
RecordSolveAtHead(p, user_id) ==
    [p EXCEPT !.solved = Put(@, user_id, p.attempts[user_id]),
              !.solve_order = <<user_id>> \o @]

\* potd_submit, lines 221-223
RecordSolve(p, user_id) ==
    [p EXCEPT !.solved = Put(@, user_id, p.attempts[user_id]),
              !.solve_order = Append(@, user_id)]

\* self.attempts.get(user_id, 0)
AttemptsOf(p, user_id) ==
    IF Has(p.attempts, user_id) THEN p.attempts[user_id] ELSE 0

\* potd_submit, line 219
CountAttempt(p, user_id) ==
    [p EXCEPT !.attempts = Put(@, user_id, AttemptsOf(p, user_id) + 1)]

\* potd_submit, lines 199-231.
PotdSubmit(u) ==
    \E guild \in BOOLEAN, answer \in TypedAnswers :
       LET ans == Upper(StripText(answer))
           reply(msg) == PotdMessage(u, msg, guild, ans, 0, 0)
       IN
       /\ IF potd.current_problem = "" \/ potd.current_answer = ""
          THEN sent' = reply("no_potd") /\ UNCHANGED potd
          ELSE IF guild
          THEN sent' = reply("dm_please") /\ UNCHANGED potd
          ELSE IF ~ValidChoice(ans)
          THEN sent' = reply("choices") /\ UNCHANGED potd
          ELSE IF Has(potd.solved, u)
          THEN sent' = reply("already_solved") /\ UNCHANGED potd
          ELSE /\ AttemptsOf(potd, u) < MaxTries
               /\ LET counted == CountAttempt(potd, u)
                  IN IF ans = Upper(potd.current_answer)
                     THEN /\ potd' = RecordSolve(counted, u)
                          /\ sent' = PotdMessage(u, "correct", guild, ans,
                                                 Len(potd'.solve_order),
                                                 counted.attempts[u])
                     ELSE /\ potd' = counted
                          /\ sent' = reply("incorrect")
       /\ UNCHANGED fn
       /\ PotdFrame

PotdNext ==
    \/ Tick
    \/ DailyPostBegin
    \/ DailyPostRankingsSent
    \/ DailyPostFetched
    \/ \E u \in Users : PotdSubmit(u)

SpecPotd == PotdInit /\ [][PotdNext]_vars

\* A step of a potd_submit handler (the task stays where it is); sent' is
\* its reply.
SubmitStep == fn' = fn /\ sent'.cmd = "potd submit"
\* The step of daily_post that ends a run: with the new problem set, or
\* with no row found.
ResetStep == fn.pc = "fetch" /\ fn'.pc = "idle" /\ fn'.outcome = "reset"
NoRowStep == fn.pc = "fetch" /\ fn'.pc = "idle" /\ fn'.outcome = "no_row"

(* C26: when daily_post replaces a POTD, the rankings of that POTD were    *)
(* posted in the same run before, and they hold everything the step        *)
(* clears: the attempts counted, the users who solved with their tries,    *)
(* and the first solver.                                                   *)
C26_RankingsBeforeReset ==
    [][(ResetStep /\ potd.current_date # NoDate) =>
          /\ fn.posted.date = potd.current_date
          /\ fn.posted.total_attempts = SumOfValues(potd.attempts)
          /\ fn.posted.solved = potd.solved
          /\ potd.solve_order # <<>> => fn.posted.first = potd.solve_order[1]
      ]_vars

(* C27: a potd submit changes attempts, solved and solve_order only when a *)
(* POTD is active, the message is a direct message, the answer is one of   *)
(* A-E and the user has not solved; otherwise the three are unchanged.  A  *)
(* valid wrong answer adds 1 to the user's attempts and nothing else.  The *)
(* problem, its answer and its date are never changed by a submission.     *)
C27_SubmitFrame ==
    [][SubmitStep =>
          LET u == sent'.user
              valid == /\ potd.current_problem # ""
                       /\ potd.current_answer # ""
                       /\ ~sent'.guild
                       /\ sent'.ans \in {"A", "B", "C", "D", "E"}
                       /\ ~Has(potd.solved, u)
          IN /\ ~valid => potd' = potd
             /\ (valid /\ sent'.ans # potd.current_answer) =>
                   /\ potd'.attempts =
                         Put(potd.attempts, u, AttemptsOf(potd, u) + 1)
                   /\ potd'.solved = potd.solved
                   /\ potd'.solve_order = potd.solve_order
             /\ potd'.current_date = potd.current_date
             /\ potd'.current_problem = potd.current_problem
             /\ potd'.current_answer = potd.current_answer
      ]_vars

\* A second wrong answer of a user was counted while the other user has
\* solved.
C27_Witness ==
    /\ sent.cmd = "potd submit"
    /\ sent.msg = "incorrect"
    /\ AttemptsOf(potd, sent.user) = 2
    /\ ~Has(potd.solved, sent.user)
    /\ potd.solved # EmptyDict

(* C28: for every user in solved, solved[user] is attempts[user] and at    *)
(* least 1; it is set to the count of the user's valid submissions up to   *)
(* the correct one, and until the next reset no step changes the user's    *)
(* solved or attempts.                                                     *)
C28_SolvedIsAttempts ==
    /\ [](\A u \in DOMAIN potd.solved :
             /\ Has(potd.attempts, u)
             /\ potd.solved[u] = potd.attempts[u]
             /\ potd.solved[u] >= 1)
    /\ [][\A u \in Users :
             /\ (Has(potd.solved, u) /\ ~ResetStep) =>
                   /\ Entry(potd'.solved, u) = Entry(potd.solved, u)
                   /\ Entry(potd'.attempts, u) = Entry(potd.attempts, u)
             /\ (~Has(potd.solved, u) /\ Has(potd'.solved, u)) =>
                   potd'.solved[u] = AttemptsOf(potd, u) + 1
         ]_vars

\* A user who solved at the second try submitted again and was told so.
C28_Witness ==
    /\ sent.cmd = "potd submit"
    /\ sent.msg = "already_solved"
    /\ Has(potd.solved, sent.user)
    /\ potd.solved[sent.user] = 2
    /\ potd.attempts[sent.user] = 2

(* C29: solve_order has no duplicates and its elements are the keys of     *)
(* solved; a solve appends the user, earlier entries keep their places     *)
(* until the reset, and the rank told to the solver is the user's position *)
(* (from 1) in solve_order.                                                *)
C29_SolveOrderRanks ==
    /\ [](/\ \A i \in 1..Len(potd.solve_order) :
                \A j \in 1..Len(potd.solve_order) :
                   i # j => potd.solve_order[i] # potd.solve_order[j]
          /\ {potd.solve_order[i] : i \in 1..Len(potd.solve_order)}
                = DOMAIN potd.solved)
    /\ [][/\ ~ResetStep =>
                /\ Len(potd.solve_order) <= Len(potd'.solve_order)
                /\ \A i \in 1..Len(potd.solve_order) :
                      potd'.solve_order[i] = potd.solve_order[i]
          /\ (SubmitStep /\ sent'.msg = "correct") =>
                /\ potd'.solve_order = Append(potd.solve_order, sent'.user)
                /\ sent'.rank \in 1..Len(potd'.solve_order)
                /\ potd'.solve_order[sent'.rank] = sent'.user
         ]_vars

\* The second solver of a POTD was told rank 2.
C29_Witness ==
    /\ sent.cmd = "potd submit"
    /\ sent.msg = "correct"
    /\ sent.rank = 2
    /\ Len(potd.solve_order) = 2
    /\ potd.solve_order[2] = sent.user

(* C30: a run of daily_post that finds no row for today leaves the date,   *)
(* the problem, the answer, attempts, solved and solve_order as they are;  *)
(* the POTD stays the one submissions are judged against, and the next run *)
(* that gets to post posts its rankings again.                             *)
C30_NoRowKeepsPotd ==
    [][/\ NoRowStep => potd' = potd
       /\ (/\ fn.pc = "idle"
           /\ fn.outcome = "no_row"
           /\ potd.current_date # NoDate
           /\ fn'.pc # "idle") =>
             /\ fn'.pc = "rankings"
             /\ fn'.posted.date = potd.current_date
             /\ fn'.posted.solved = potd.solved
      ]_vars

\* After a run that found no row, a user solved the POTD of the day
\* before, and the next run posts its rankings.
C30_Witness ==
    /\ fn.op = "daily_post"
    /\ fn.pc = "rankings"
    /\ fn.outcome = "no_row"
    /\ fn.clock = 2
    /\ potd.current_date = 1
    /\ fn.posted.date = 1
    /\ fn.posted.solved # EmptyDict

-----------------------------------------------------------------------------
(* post_rankings with its await points: `guild.get_member(uid) or await    *)
(* self.bot.fetch_user(uid)` suspends the coroutine for a user who is not  *)
(* in the guild's member cache, once for the first solver (line 115) and   *)
(* once per entry inside `for uid, tries in self.solved.items()` (line     *)
(* 128); then channel.send (line 141).  Handlers of potd submit run while  *)
(* it is suspended.  The runs start with a POTD posted and submissions     *)
(* counted.                                                                *)

\* The states of PotdCog with a problem posted: some users have counted
\* submissions, some of them have solved, in some order.
Injective(f) == \A i \in DOMAIN f : \A j \in DOMAIN f : i # j => f[i] # f[j]
SolveOrders(S) ==
    {f \in UNION {[1..n -> S] : n \in 0..Cardinality(S)} : Injective(f)}
Posted(att, order) ==
    [current_date |-> 1, current_problem |-> "problem",
     current_answer |-> "B", attempts |-> att,
     solved |-> [u \in {order[i] : i \in 1..Len(order)} |-> att[u]],
     solve_order |-> order]
PotdStates ==
    UNION {{Posted(att, order) : order \in SolveOrders(DOMAIN att)} :
              att \in UNION {[S -> 1..MaxTries] : S \in SUBSET Users}}

NoEmbed == [total_attempts |-> 0, total_correct |-> 0, first |-> None,
            per_try |-> EmptyDict, no_attempts |-> FALSE]

RankingsInit ==
    /\ active = EmptyDict
    /\ leaderboard = EmptyDict
    /\ problems = EmptyDict
    /\ opened = [u \in Users |-> 0]
    /\ awaiting = [u \in Users |-> 0]
    /\ sent = NoMessage
    /\ cog = None
    /\ potd \in PotdStates
    /\ fn = [op |-> "post_rankings", pc |-> "idle",
             total_attempts |-> 0, total_correct |-> 0, first |-> None,
             used |-> 0, index |-> 0, attempts_map |-> EmptyDict,
             seen |-> [attempts |-> EmptyDict, solved |-> EmptyDict],
             embed |-> NoEmbed]

\* attempts_map.setdefault(tries, []).append(user.display_name), line 129
Listed(call, uid, tries) ==
    [call EXCEPT !.attempts_map =
        Put(@, tries,
            Append(IF Has(@, tries) THEN @[tries] ELSE <<>>, uid))]

\* Lines 130-141: the fields of the embed from the totals and the lists,
\* `if not self.attempts` read now; suspended at channel.send.
Finished(call, p) ==
    [call EXCEPT !.pc = "send",
                 !.embed = [total_attempts |-> call.total_attempts,
                            total_correct |-> call.total_correct,
                            first |-> call.first,
                            per_try |-> call.attempts_map,
                            no_attempts |-> p.attempts = EmptyDict]]

\* An exception leaves post_rankings (and daily_post): nothing is posted.
Raised(call) == [call EXCEPT !.pc = "raised"]

\* The loop of lines 127-129 from entry i of self.solved (a dict iterates
\* in insertion order, the order of solve_order) up to its next await or
\* its end: each entry is found in the cache and listed, or suspends the
\* coroutine at fetch_user.
RECURSIVE IterateSolved(_, _, _)
IterateSolved(call, p, i) ==
    IF i > Len(p.solve_order) THEN {Finished(call, p)}
    ELSE {[call EXCEPT !.pc = "fetch", !.index = i]}
         \cup IterateSolved(Listed(call, p.solve_order[i],
                                   p.solved[p.solve_order[i]]), p, i + 1)

\* self.solved.items() at line 127: the iterator notes the dict's size.
StartLoop(call, p) ==
    IterateSolved([call EXCEPT !.used = Cardinality(DOMAIN p.solved)], p, 1)

\* post_rankings, lines 98-127, to its first await.
RankingsBegin ==
    /\ fn.pc = "idle"
    /\ potd.current_date # NoDate
    /\ LET call == [fn EXCEPT
                       !.total_attempts = SumOfValues(potd.attempts),
                       !.total_correct = Cardinality(DOMAIN potd.solved),
                       !.seen = [attempts |-> potd.attempts,
                                 solved |-> potd.solved]]
       IN IF potd.solve_order = <<>>
          THEN fn' \in StartLoop(call, potd)
          ELSE \/ fn' \in StartLoop([call EXCEPT
                                        !.first = potd.solve_order[1]], potd)
               \/ fn' = [call EXCEPT !.pc = "first",
                                     !.first = potd.solve_order[1]]
    /\ UNCHANGED <<potd, sent>>
    /\ PotdFrame

\* fetch_user of the first solver returns (or raises): lines 115-127.
RankingsFirstFetched ==
    /\ fn.pc = "first"
    /\ \E fetchOk \in BOOLEAN :
          IF fetchOk THEN fn' \in StartLoop(fn, potd) ELSE fn' = Raised(fn)
    /\ UNCHANGED <<potd, sent>>
    /\ PotdFrame

\* fetch_user of the entry at fn.index returns (or raises): the entry is
\* listed, and the iterator's next step raises RuntimeError ("dictionary
\* changed size during iteration") when self.solved has grown.
RankingsFetched ==
    /\ fn.pc = "fetch"
    /\ \E fetchOk \in BOOLEAN :
          IF ~fetchOk THEN fn' = Raised(fn)
          ELSE IF Cardinality(DOMAIN potd.solved) # fn.used
          THEN fn' = Raised(Listed(fn, potd.solve_order[fn.index],
                                   potd.solved[potd.solve_order[fn.index]]))
          ELSE fn' \in IterateSolved(
                          Listed(fn, potd.solve_order[fn.index],
                                 potd.solved[potd.solve_order[fn.index]]),
                          potd, fn.index + 1)
    /\ UNCHANGED <<potd, sent>>
    /\ PotdFrame

\* channel.send(embed=embed) completes, line 141.
RankingsSent ==
    /\ fn.pc = "send"
    /\ fn' = [fn EXCEPT !.pc = "done"]
    /\ UNCHANGED <<potd, sent>>
    /\ PotdFrame

RankingsNext ==
    \/ RankingsBegin
    \/ RankingsFirstFetched
    \/ RankingsFetched
    \/ RankingsSent
    \/ \E u \in Users : PotdSubmit(u)

SpecRankings == RankingsInit /\ [][RankingsNext]_vars

\* The users listed under a number of tries in an embed.
ListedUnder(embed, t) ==
    IF Has(embed.per_try, t)
    THEN {embed.per_try[t][i] : i \in 1..Len(embed.per_try[t])}
    ELSE {}

(* C31: while post_rankings is suspended inside its iteration over solved, *)
(* no step changes solved; and the embed it sends describes attempts and   *)
(* solved as they were at one moment (when the totals were taken): the     *)
(* total of attempts, the number of solvers, and under every number of     *)
(* tries the users who solved with that many.                              *)
C31_RankingsSnapshot ==
    /\ [][fn.pc = "fetch" => potd'.solved = potd.solved]_vars
    /\ [](fn.pc \in {"send", "done"} =>
            /\ fn.embed.total_attempts = SumOfValues(fn.seen.attempts)
            /\ fn.embed.total_correct = Cardinality(DOMAIN fn.seen.solved)
            /\ fn.embed.no_attempts = (fn.seen.attempts = EmptyDict)
            /\ \A t \in 1..MaxTries :
                  ListedUnder(fn.embed, t) =
                     {u \in DOMAIN fn.seen.solved : fn.seen.solved[u] = t})

-----------------------------------------------------------------------------
(* The practice problems over the whole ranges of their draws, and         *)
(* prac submit on the text of the answer: one user, whose problem is       *)
(* generated by prac square or prac modinv and judged by prac submit.      *)
(* fn holds the last command, its argument, the reply, and the problem     *)
(* prac submit judged against.                                             *)

DecimalDigits == <<"0", "1", "2", "3", "4", "5", "6", "7", "8", "9">>
IsDecimalDigit(t) == \E d \in 1..10 : DecimalDigits[d] = t
DecimalValue(t) == (CHOOSE d \in 1..10 : DecimalDigits[d] = t) - 1

\* str(n) for n >= 0
RECURSIVE Decimal(_)
Decimal(n) ==
    IF n < 10 THEN <<DecimalDigits[n + 1]>>
    ELSE Decimal(n \div 10) \o <<DecimalDigits[(n % 10) + 1]>>

RECURSIVE DigitsValue(_)
DigitsValue(digits) ==
    IF digits = <<>> THEN 0
    ELSE 10 * DigitsValue(SubSeq(digits, 1, Len(digits) - 1))
         + DecimalValue(digits[Len(digits)])

\* int(user_answer.strip()), line 105: surrounding whitespace dropped, an
\* optional sign, then decimal digits, single underscores allowed between
\* digits; anything else raises ValueError.
ParseInt(text) ==
    LET s == Strip(text)
        signed == s # <<>> /\ Head(s) \in {"+", "-"}
        body == IF signed THEN Tail(s) ELSE s
        wellFormed ==
            /\ body # <<>>
            /\ \A i \in 1..Len(body) :
                  \/ IsDecimalDigit(body[i])
                  \/ /\ body[i] = "_"
                     /\ 1 < i /\ i < Len(body)
                     /\ IsDecimalDigit(body[i - 1])
                     /\ IsDecimalDigit(body[i + 1])
        magnitude == DigitsValue(SelectSeq(body, IsDecimalDigit))
    IN IF ~wellFormed THEN NotAnInteger
       ELSE [isInt |-> TRUE,
             val |-> IF signed /\ Head(s) = "-" THEN 0 - magnitude
                     ELSE magnitude]

\* The texts prac submit is driven with for a problem: its answer as str
\* writes it, padded, signed, zero-prefixed, with an underscore and with a
\* fraction; the negated answer, the next integer, the answer plus the
\* modulus (or plus n); the empty text and a word.
PracTexts(problem) ==
    LET right == Decimal(problem.answer)
        step == IF problem.type = "modinv" THEN problem.m ELSE problem.n
    IN {right,
        <<" ">> \o right \o <<" ">>,
        <<"+">> \o right,
        <<"0">> \o right,
        <<Head(right), "_">> \o Tail(right),
        right \o <<".", "0">>,
        <<"-">> \o right,
        Decimal(problem.answer + 1),
        Decimal(problem.answer + step),
        <<>>,
        <<"x">>}

PracUser == "u1"
NoProblem == [type |-> None]
PracCall(cmd, text, reply, judged) ==
    [op |-> "prac", cmd |-> cmd, text |-> text, reply |-> reply,
     judged |-> judged]

PracInit ==
    /\ BotIdle
    /\ leaderboard = EmptyDict
    /\ fn = PracCall(None, <<>>, None, NoProblem)

PracFrame == UNCHANGED <<active, leaderboard, opened, awaiting, sent, cog, potd>>

\* prac_square, lines 42-58, n over the whole of random.randint(10, 120).
PracSquareCall ==
    /\ IF HasActive(PracUser)
       THEN /\ fn' = PracCall("prac square", <<>>, "already_active", NoProblem)
            /\ UNCHANGED problems
       ELSE \E n \in SquareLow..SquareHigh :
            /\ problems' = Put(problems, PracUser, SquareProblem(n))
            /\ fn' = PracCall("prac square", <<>>, "problem", NoProblem)
    /\ PracFrame

\* prac_modinv, lines 62-85: the loop of lines 71-79 draws m from
\* random.randint(3, 50) and a from random.randint(2, m - 1) until
\* math.gcd(a, m) == 1 and pow(a, -1, m) does not raise.
PracModinvCall ==
    /\ IF HasActive(PracUser)
       THEN /\ fn' = PracCall("prac modinv", <<>>, "already_active", NoProblem)
            /\ UNCHANGED problems
       ELSE \E m \in ModLow..ModHigh : \E a \in 2..(m - 1) :
            /\ Gcd(a, m) = 1
            /\ Invertible(a, m)
            /\ problems' = Put(problems, PracUser, ModinvProblem(a, m))
            /\ fn' = PracCall("prac modinv", <<>>, "problem", NoProblem)
    /\ PracFrame

\* prac_submit, lines 93-124, on the text of the answer.
PracSubmitCall ==
    /\ IF ~HasActive(PracUser)
       THEN /\ fn' = PracCall("prac submit", <<>>, "no_active", NoProblem)
            /\ UNCHANGED problems
       ELSE \E user_answer \in PracTexts(problems[PracUser]) :
            LET problem == problems[PracUser]
                ans_int == ParseInt(user_answer)
            IN IF ~ans_int.isInt
               THEN /\ fn' = PracCall("prac submit", user_answer, "invalid",
                                      problem)
                    /\ UNCHANGED problems
               ELSE IF ans_int.val = problem.answer
               THEN /\ problems' = Del(problems, PracUser)
                    /\ fn' = PracCall("prac submit", user_answer, "solved",
                                      problem)
               ELSE /\ fn' = PracCall("prac submit", user_answer,
                                      "incorrect", problem)
                    /\ UNCHANGED problems
    /\ PracFrame

PracNext ==
    \/ PracSquareCall
    \/ PracModinvCall
    \/ PracSubmitCall

SpecPrac == PracInit /\ [][PracNext]_vars

\* a and m have no common divisor but 1
Coprime(a, m) == \A d \in 2..m : ~(a % d = 0 /\ m % d = 0)

\* The stored answer is the answer to the problem posed.
ProblemCorrect(p) ==
    IF p.type = "modinv"
    THEN /\ ModLow <= p.m /\ p.m <= ModHigh
         /\ 2 <= p.a /\ p.a < p.m
         /\ Coprime(p.a, p.m)
         /\ 0 < p.answer /\ p.answer < p.m
         /\ (p.a * p.answer) % p.m = 1
    ELSE /\ p.type = "square"
         /\ SquareLow <= p.n /\ p.n <= SquareHigh
         /\ p.answer = p.n * p.n

(* C32: every stored practice problem carries the correct answer: a        *)
(* modular-inverse problem has 3 <= m <= 50, 2 <= a < m, gcd(a, m) = 1 and *)
(* an answer inv with 0 < inv < m and (a * inv) mod m = 1; a square        *)
(* problem has 10 <= n <= 120 and answer n * n; and prac submit replies    *)
(* that the answer is correct (and clears the problem) exactly when the    *)
(* text submitted is an integer equal to the stored answer.                *)
C32_StoredAnswerCorrect ==
    /\ \A u \in DOMAIN problems : ProblemCorrect(problems[u])
    /\ (fn.cmd = "prac submit" /\ fn.judged # NoProblem) =>
          /\ ProblemCorrect(fn.judged)
          /\ (fn.reply = "solved") <=>
                (/\ ParseInt(fn.text).isInt
                 /\ ParseInt(fn.text).val = fn.judged.answer)
          /\ (fn.reply = "solved") <=> ~Has(problems, PracUser)
          /\ (fn.reply = "invalid") <=> ~ParseInt(fn.text).isInt

\* A modular-inverse problem with the largest modulus, solved by its answer
\* typed with surrounding spaces.
C32_Witness ==
    /\ fn.cmd = "prac submit"
    /\ fn.reply = "solved"
    /\ fn.judged.type = "modinv"
    /\ fn.judged.m = ModHigh
    /\ fn.judged.answer > 1
    /\ Head(fn.text) = " "

====
